---- MODULE Spec2Model ----
(***************************************************************************)
(* Model of the channel importer: the remote catalog listing               *)
(* (fetch-youtube-videos.ts), the persistence gateway (db-operations.ts)   *)
(* and the sync run that drives them.                                      *)
(*                                                                         *)
(* Text values that the code inspects character by character (duration    *)
(* tokens, numeric strings, display strings) are sequences of one-char     *)
(* strings.  A nullable number is <<>> (null / undefined / NaN) or <<n>>.  *)
(***************************************************************************)
EXTENDS Integers, Sequences, FiniteSets, TLC

\* JS null / undefined for string-valued fields
NULL == "NULL"
\* the empty JS string
EMPTY == ""
\* null / undefined / NaN for number-valued fields, and a present number
None == <<>>
Some(n) == <<n>>

\* JS truthiness of a string-valued field
Falsy(x) == x \in {NULL, EMPTY}
\* x || y on string-valued fields
OrElse(x, y) == IF Falsy(x) THEN y ELSE x
\* (x || 0) on a nullable number: null, undefined, NaN and 0 all give 0
OrZero(x) == IF x = None THEN 0 ELSE x[1]

SetMin(S) == CHOOSE x \in S : \A y \in S : x <= y
SetMax(S) == CHOOSE x \in S : \A y \in S : x >= y

(***************************************************************************)
(* Number <-> text conversions used by the code                            *)
(***************************************************************************)
DigitChars == <<"0", "1", "2", "3", "4", "5", "6", "7", "8", "9">>
IsDigit(c) == \E d \in 1..10 : DigitChars[d] = c
DigitVal(c) == (CHOOSE d \in 1..10 : DigitChars[d] = c) - 1

\* length of the run of decimal digits of s that starts at position p
DigitRun(s, p) ==
  SetMax({k \in 0..(Len(s) - p + 1) : \A j \in p..(p + k - 1) : IsDigit(s[j])})

RECURSIVE DigitsValue(_)
\* value of a non-empty run of decimal digits
DigitsValue(ds) ==
  IF ds = <<>> THEN 0
  ELSE DigitsValue(SubSeq(ds, 1, Len(ds) - 1)) * 10 + DigitVal(ds[Len(ds)])

\* parseInt(s): the leading decimal digits of s, NaN (None) when there are none
parseInt(s) ==
  LET k == DigitRun(s, 1)
  IN IF k = 0 THEN None ELSE Some(DigitsValue(SubSeq(s, 1, k)))

RECURSIVE NumToString(_)
\* Number.prototype.toString() of a non-negative integer
NumToString(n) ==
  IF n < 10 THEN <<DigitChars[n + 1]>>
  ELSE NumToString(n \div 10) \o <<DigitChars[(n % 10) + 1]>>

\* String.prototype.padStart(2, '0')
PadStart2(s) ==
  IF Len(s) >= 2 THEN s
  ELSE IF Len(s) = 1 THEN <<"0">> \o s
  ELSE <<"0", "0">>

(***************************************************************************)
(* Duration tokens (fetch-youtube-videos.ts, parseDurationToSeconds and    *)
(* formatDuration)                                                         *)
(***************************************************************************)
\* position of the first "PT" in the token, 0 when there is none: where the
\* unanchored pattern /PT(?:(\d+)H)?(?:(\d+)M)?(?:(\d+)S)?/ matches
FirstPT(duration) ==
  LET I == {i \in 1..(Len(duration) - 1) : duration[i] = "P" /\ duration[i + 1] = "T"}
  IN IF I = {} THEN 0 ELSE SetMin(I)

\* the optional group (?:(\d+)X)? tried at position p: the captured digits
\* (<<>> when the group does not take part) and the position after it
DurationGroup(duration, p, unit) ==
  LET k == DigitRun(duration, p)
  IN IF k > 0 /\ p + k <= Len(duration) /\ duration[p + k] = unit
     THEN [g |-> SubSeq(duration, p, p + k - 1), next |-> p + k + 1]
     ELSE [g |-> <<>>, next |-> p]

\* parseInt(match[i] || '0')
GroupValue(g) == IF g = <<>> THEN 0 ELSE DigitsValue(g)

\* a plausible slip: minutes weighted like seconds
parseDurationToSeconds_NoMinuteWeight(duration) ==
  LET i == FirstPT(duration)
  IN IF i = 0 THEN 0
     ELSE LET h == DurationGroup(duration, i + 2, "H")
              m == DurationGroup(duration, h.next, "M")
              s == DurationGroup(duration, m.next, "S")
          IN GroupValue(h.g) * 3600 + GroupValue(m.g) + GroupValue(s.g)

parseDurationToSeconds(duration) ==
  LET i == FirstPT(duration)
  IN IF i = 0 THEN 0
     ELSE LET h == DurationGroup(duration, i + 2, "H")
              m == DurationGroup(duration, h.next, "M")
              s == DurationGroup(duration, m.next, "S")
          IN GroupValue(h.g) * 3600 + GroupValue(m.g) * 60 + GroupValue(s.g)

formatDuration(duration) ==
  LET totalSeconds == parseDurationToSeconds(duration)
      hours == totalSeconds \div 3600
      minutes == (totalSeconds % 3600) \div 60
      seconds == totalSeconds % 60
  IN IF hours > 0
     THEN NumToString(hours) \o <<":">> \o PadStart2(NumToString(minutes))
          \o <<":">> \o PadStart2(NumToString(seconds))
     ELSE NumToString(minutes) \o <<":">> \o PadStart2(NumToString(seconds))

\* videos shorter than this many seconds are skipped
MinDurationSeconds == 120

(***************************************************************************)
(* The remote catalog.  The external API is not part of the program: each  *)
(* sync run talks to one of the catalogs below (what the remote side holds *)
(* at the time of the run), and every request may also fail.               *)
(***************************************************************************)
\* text of a decimal number, as the API sends counters
Str(n) == NumToString(n)

RemoteVideo(id, title, publishedAt, duration, statistics, description, thumbnails) ==
  [id |-> id, title |-> title, publishedAt |-> publishedAt, duration |-> duration,
   statistics |-> statistics, description |-> description, thumbnails |-> thumbnails]

\* statistics object of a video: each counter a numeric string or absent (<<>>)
VStats(v, l, c) == [present |-> TRUE, viewCount |-> v, likeCount |-> l, commentCount |-> c]
NoVStats == [present |-> FALSE, viewCount |-> <<>>, likeCount |-> <<>>, commentCount |-> <<>>]

Thumbs(d, h) == [default |-> d, high |-> h]

\* a playlist page: items absent (NULL) or present with the video id of each
\* item (NULL where an item carries none), and the continuation token of the
\* page (0 when the page has none; otherwise the number of the next page)
Page(hasItems, ids, nextPageToken) ==
  [hasItems |-> hasItems, ids |-> ids, nextPageToken |-> nextPageToken]

PT2M == <<"P", "T", "2", "M">>
PT1M59S == <<"P", "T", "1", "M", "5", "9", "S">>
PT1H2M3S == <<"P", "T", "1", "H", "2", "M", "3", "S">>
PT5M9S == <<"P", "T", "5", "M", "9", "S">>
PT3M == <<"P", "T", "3", "M">>
P1DT1H == <<"P", "1", "D", "T", "1", "H">>

Catalog1 ==
  [uploads |-> ("UCa" :> "UUa") @@ ("UCb" :> "UUb"),
   pages |-> ("UUa" :> << Page(TRUE, <<"v1", "v2">>, 2), Page(TRUE, <<"v3", "v5">>, 0) >>)
          @@ ("UUb" :> << Page(TRUE, <<"v4">>, 0) >>),
   videos |->
     ("v1" :> RemoteVideo("v1", "t1", <<"2024-01-05", "T", "10:00:00Z">>, PT2M,
                          VStats(Str(10), Str(3), Str(1)), "d1", Thumbs("dflt1", "high1")))
  @@ ("v2" :> RemoteVideo("v2", "t2", <<"2024-01-06", "T", "10:00:00Z">>, PT1M59S,
                          VStats(Str(5), Str(2), Str(0)), "d2", Thumbs("dflt2", NULL)))
  @@ ("v3" :> RemoteVideo("v3", "t3", <<"2024-01-07", "T", "23:59:59Z">>, PT1H2M3S,
                          VStats(Str(20), Str(7), <<>>), EMPTY, Thumbs("dflt3", NULL)))
  @@ ("v4" :> RemoteVideo("v4", "t4", <<"2024-01-08", "T", "00:00:00Z">>, PT5M9S,
                          NoVStats, "d4", Thumbs(NULL, NULL)))
  @@ ("v5" :> RemoteVideo("v5", "t5", <<"2024-01-09", "T", "00:00:00Z">>, PT3M,
                          VStats(Str(1), <<>>, <<"n", "a">>), "d5", Thumbs("dflt5", "high5"))),
   usernames |-> ("userb" :> "UCb"),
   search |-> ("Alpha" :> "UCa"),
   statistics |-> ("UCa" :> [present |-> TRUE, subscriberCount |-> Str(10),
                             viewCount |-> Str(100), videoCount |-> Str(4)])
               @@ ("UCb" :> [present |-> FALSE, subscriberCount |-> <<>>,
                             viewCount |-> <<>>, videoCount |-> <<>>])]

\* the remote side later on: counters and titles have moved, v2 has become a
\* long video with an unparseable publish time, v1 is listed twice in channel
\* a and also in channel b, one page answers without items
Catalog2 ==
  [uploads |-> ("UCa" :> "UUa") @@ ("UCb" :> "UUb"),
   pages |-> ("UUa" :> << Page(TRUE, <<"v1", "v3">>, 2), Page(TRUE, <<"v1", "v2", "v5">>, 3),
                          Page(TRUE, <<NULL>>, 0) >>)
          @@ ("UUb" :> << Page(TRUE, <<"v4", "v1">>, 2), Page(FALSE, <<>>, 3),
                          Page(TRUE, <<"v4">>, 0) >>),
   videos |->
     ("v1" :> RemoteVideo("v1", "t1-renamed", <<"2024-02-01", "T", "10:00:00Z">>, PT3M,
                          VStats(Str(11), Str(4), Str(2)), "d1-edited", Thumbs("dflt1", NULL)))
  @@ ("v2" :> RemoteVideo("v2", "t2", <<>>, PT3M,
                          VStats(Str(5), Str(2), Str(0)), "d2", Thumbs("dflt2", NULL)))
  @@ ("v3" :> RemoteVideo("v3", "t3", <<"2024-01-07", "T", "23:59:59Z">>, P1DT1H,
                          NoVStats, EMPTY, Thumbs("dflt3", NULL)))
  @@ ("v4" :> RemoteVideo("v4", "t4", <<"2024-01-08", "T", "00:00:00Z">>, PT5M9S,
                          VStats(Str(9), Str(1), Str(1)), "d4", Thumbs(NULL, NULL)))
  @@ ("v5" :> RemoteVideo("v5", "t5", <<"2024-01-09", "T", "00:00:00Z">>, PT3M,
                          VStats(Str(2), Str(0), Str(0)), "d5", Thumbs("dflt5", "high5"))),
   usernames |-> ("userb" :> "UCb"),
   search |-> ("Alpha" :> "UCa") @@ ("Alpha TV" :> "UCa"),
   statistics |-> ("UCa" :> [present |-> TRUE, subscriberCount |-> Str(12),
                             viewCount |-> <<>>, videoCount |-> Str(5)])
               @@ ("UCb" :> [present |-> TRUE, subscriberCount |-> Str(1),
                             viewCount |-> Str(9), videoCount |-> Str(1)])]

Catalogs == <<Catalog1, Catalog2>>

\* response field lookup: the value at key k, or the default when absent
Lookup(f, k, dflt) == IF k \in DOMAIN f THEN f[k] ELSE dflt

(***************************************************************************)
(* Operator input: configuration lists (channels-config.json) and the      *)
(* optional cap on videos per channel                                      *)
(***************************************************************************)
ChannelCfg(slug, name, youtubeId, youtubeUsername) ==
  [slug |-> slug, name |-> name, youtubeId |-> youtubeId,
   youtubeUsername |-> youtubeUsername]

Configs ==
  { << ChannelCfg("a", "Alpha", "UCa", NULL), ChannelCfg("b", "Beta", NULL, "userb"),
       ChannelCfg("a", "Alpha", "UCa", NULL) >>,
    << ChannelCfg("c", "Gamma", NULL, NULL), ChannelCfg("a", "Alpha TV", NULL, NULL),
       ChannelCfg("b", "Beta", "UCb", NULL) >> }

\* the largest cap on videos per channel that a run is given
MaxLimit == 1
\* limitVideos: 0 stands for "no cap" (undefined and 0 are both falsy in the code)
Limits == {0} \cup (1..MaxLimit)
\* the number of direct calls of upsertChannelStatistics explored
MaxDirectCalls == 1

(***************************************************************************)
(* The store: three tables, each a set of rows.  The constraints are those *)
(* of the database (primary keys, foreign keys, the statistics table's     *)
(* uniqueness of channel and date).                                        *)
(***************************************************************************)
\* new Date().toISOString().split('T')[0] at the time of the run, and the day
\* carried by rows written earlier
Today == "2024-03-02"
Earlier == "2024-03-01"

\* column default of tv_channels.visible for a row inserted without it
DefaultVisible == NULL

ChannelRow(slug, name, youtube_id, visible, created_at) ==
  [slug |-> slug, name |-> name, youtube_id |-> youtube_id, visible |-> visible,
   created_at |-> created_at]

\* upsert on tv_channels (conflict target: the primary key slug): an existing
\* row takes the columns of the payload and keeps the others, a new row takes
\* the column defaults for the columns the payload leaves out
DbUpsertChannel_Insert(chans, rec, now) ==
  chans \cup {ChannelRow(rec.slug, rec.name, rec.youtube_id, DefaultVisible, now)}

DbUpsertChannel(chans, rec, now) ==
  IF \E r \in chans : r.slug = rec.slug
  THEN {IF r.slug = rec.slug
        THEN [r EXCEPT !.name = rec.name, !.youtube_id = rec.youtube_id]
        ELSE r : r \in chans}
  ELSE chans \cup {ChannelRow(rec.slug, rec.name, rec.youtube_id, DefaultVisible, now)}

\* channelRecord of upsertChannel
ChannelRecord(channelData) ==
  [slug |-> channelData.slug, name |-> channelData.name,
   youtube_id |-> OrElse(channelData.youtubeId, NULL)]

\* select('id').eq('channel_slug', channelSlug)
SelectIds_AllChannels(rows, channelSlug) == {r.id : r \in rows}

SelectIds(rows, channelSlug) == {r.id : r \in {x \in rows : x.channel_slug = channelSlug}}

\* a plausible slip: the comments counter taken from the likes
UpdateRecord_CommentsFromLikes(video) ==
  [views |-> OrZero(video.views), likes |-> OrZero(video.likes),
   comments |-> OrZero(video.likes)]

\* updateRecord of insertNewMediaItems
UpdateRecord(video) ==
  [views |-> OrZero(video.views), likes |-> OrZero(video.likes),
   comments |-> OrZero(video.comments)]

\* update(updateRecord).eq('id', id)
DbUpdateItem_WithTitle(rows, video) ==
  {IF r.id = video.id
   THEN [r EXCEPT !.views = Some(OrZero(video.views)), !.likes = Some(OrZero(video.likes)),
                  !.comments = Some(OrZero(video.comments)), !.title = video.title]
   ELSE r : r \in rows}

DbUpdateItem(rows, video) ==
  LET u == UpdateRecord(video)
  IN {IF r.id = video.id
      THEN [r EXCEPT !.views = Some(u.views), !.likes = Some(u.likes),
                     !.comments = Some(u.comments)]
      ELSE r : r \in rows}

YoutubeUrl(id) == <<"https://www.youtube.com/watch?v=", id>>

\* record of insertNewMediaItems: the full row of an unseen video
NewRecord(channelSlug, video) ==
  [id |-> video.id, title |-> video.title, date |-> video.date,
   content_type |-> OrElse(video.contentType, "podcast"),
   duration |-> video.duration,
   description |-> OrElse(video.description, NULL),
   youtube_id |-> video.id,
   image |-> OrElse(video.thumbnails.high, OrElse(video.thumbnails.default, NULL)),
   channel_slug |-> channelSlug,
   youtube_url |-> YoutubeUrl(video.id),
   views |-> Some(OrZero(video.views)), likes |-> Some(OrZero(video.likes)),
   comments |-> Some(OrZero(video.comments))]

\* the stored row of an inserted record: the columns the record leaves out
\* take their defaults
ItemRow(rec, now) ==
  [id |-> rec.id, title |-> rec.title, date |-> rec.date, content_type |-> rec.content_type,
   duration |-> rec.duration, description |-> rec.description, youtube_id |-> rec.youtube_id,
   image |-> rec.image, channel_slug |-> rec.channel_slug, youtube_url |-> rec.youtube_url,
   views |-> rec.views, likes |-> rec.likes, comments |-> rec.comments,
   apple_podcasts_url |-> NULL, created_at |-> now]

\* the primary key of tv_media_items: a record's id is already stored (under
\* any channel), or two records of the batch share an id
DuplicateId(rows, recs) ==
  \/ \E i \in 1..Len(recs) : \E r \in rows : r.id = recs[i].id
  \/ \E i, j \in 1..Len(recs) : i # j /\ recs[i].id = recs[j].id

\* the foreign key of tv_media_items: the channel of a record is not stored
ChannelMissing(chans, recs) ==
  \E i \in 1..Len(recs) : \A c \in chans : c.slug # recs[i].channel_slug

\* the bulk insert is one statement: it is rejected as a whole when a record
\* breaks a constraint of the table
InsertRejected(rows, chans, recs) == DuplicateId(rows, recs) \/ ChannelMissing(chans, recs)

DbInsertItems(rows, recs, now) == rows \cup {ItemRow(recs[i], now) : i \in 1..Len(recs)}

RECURSIVE SumOver(_, _)
\* reduce((sum, item) => sum + (item.f || 0), 0) over the selected rows, given
\* as the set of pairs <<id, value>>
SumOver(pairs, acc) ==
  IF pairs = {} THEN acc
  ELSE LET p == CHOOSE x \in pairs : TRUE
       IN SumOver(pairs \ {p}, acc + OrZero(p[2]))

calculatedLikes_AllChannels(rows, channelSlug) ==
  SumOver({<<r.id, r.likes>> : r \in rows}, 0)

calculatedLikes(rows, channelSlug) ==
  SumOver({<<r.id, r.likes>> : r \in {x \in rows : x.channel_slug = channelSlug}}, 0)

calculatedComments(rows, channelSlug) ==
  SumOver({<<r.id, r.comments>> : r \in {x \in rows : x.channel_slug = channelSlug}}, 0)

\* statistics.f ? parseInt(statistics.f) : 0, as stored in an integer column
CountColumn(text) == IF text = <<>> THEN Some(0) ELSE parseInt(text)

\* record of upsertChannelStatistics
StatisticsRecord(rows, channelSlug, statistics, date, today) ==
  [channel_slug |-> channelSlug,
   date |-> OrElse(date, today),
   subscriber_count |-> CountColumn(statistics.subscriberCount),
   total_channel_views |-> CountColumn(statistics.viewCount),
   total_videos |-> CountColumn(statistics.videoCount),
   calculated_total_likes |-> calculatedLikes(rows, channelSlug),
   calculated_total_comments |-> calculatedComments(rows, channelSlug)]

\* upsert on tv_channel_statistics (conflict target: the primary key id, which
\* the record does not carry, so the statement always inserts): rejected when
\* the channel is not stored or a row of the same channel and date exists
StatisticsRejected(statRows, chans, rec) ==
  \/ \A c \in chans : c.slug # rec.channel_slug
  \/ \E r \in statRows : r.channel_slug = rec.channel_slug /\ r.date = rec.date

DbUpsertStatistics(statRows, rec, id, now) ==
  statRows \cup {[id |-> id, channel_slug |-> rec.channel_slug, date |-> rec.date,
                  subscriber_count |-> rec.subscriber_count,
                  total_channel_views |-> rec.total_channel_views,
                  total_videos |-> rec.total_videos,
                  calculated_total_likes |-> rec.calculated_total_likes,
                  calculated_total_comments |-> rec.calculated_total_comments,
                  created_at |-> now]}

(***************************************************************************)
(* Record mapping and one page of the listing (getVideosFromChannel)       *)
(***************************************************************************)
\* if (durationSeconds < 120) continue
IsShort_Inclusive(durationSeconds) == durationSeconds <= MinDurationSeconds

IsShort(durationSeconds) == durationSeconds < MinDurationSeconds

\* limitVideos && videos.length >= limitVideos
LimitReached_Late(limit, n) == limit # 0 /\ n > limit

LimitReached(limit, n) == limit # 0 /\ n >= limit

\* new Date(publishedAt).toISOString() throws on an invalid time value
InvalidDate(publishedAt) == publishedAt = <<>>

\* parseInt(statistics.f || '0')
CounterOf(text) == parseInt(IF text = <<>> THEN <<"0">> ELSE text)

\* the VideoData pushed for a remote video
MapVideo(video) ==
  [id |-> video.id, title |-> video.title, date |-> video.publishedAt[1],
   contentType |-> "podcast",
   duration |-> formatDuration(video.duration),
   description |-> video.description,
   thumbnails |-> [default |-> OrElse(video.thumbnails.default, EMPTY),
                   high |-> OrElse(video.thumbnails.high, EMPTY)],
   views |-> CounterOf(video.statistics.viewCount),
   likes |-> CounterOf(video.statistics.likeCount),
   comments |-> CounterOf(video.statistics.commentCount)]

RECURSIVE MapLoop(_, _, _, _, _)
\* the loop over the items of a video-detail response, from item k on:
\* the videos collected, the ids the loop has filtered, and how the loop ended
\* ("end": all items seen, "limit": the cap was reached, "threw": an item
\* could not be mapped)
MapLoop(vids, detailItems, k, limit, seen) ==
  IF k > Len(detailItems) THEN [videos |-> vids, examined |-> seen, status |-> "end"]
  ELSE IF IsShort(parseDurationToSeconds(detailItems[k].duration))
  THEN MapLoop(vids, detailItems, k + 1, limit, seen \cup {detailItems[k].id})
  ELSE IF InvalidDate(detailItems[k].publishedAt)
  THEN [videos |-> vids, examined |-> seen, status |-> "threw"]
  ELSE CHOOSE res \in
         { IF LimitReached(limit, Len(pushed))
           THEN [videos |-> pushed, examined |-> seen \cup {detailItems[k].id},
                 status |-> "limit"]
           ELSE MapLoop(pushed, detailItems, k + 1, limit, seen \cup {detailItems[k].id})
           : pushed \in {Append(vids, MapVideo(detailItems[k]))} } : TRUE

\* videoIds of a playlist page: the ids of its items, without the missing ones
VideoIdsOf(page) == SelectSeq(page.ids, LAMBDA id : ~Falsy(id))

\* items of the video-detail response for the requested ids
DetailItems(cat, videoIds) ==
  LET known == SelectSeq(videoIds, LAMBDA id : id \in DOMAIN cat.videos)
  IN [i \in 1..Len(known) |-> cat.videos[known[i]]]

(***************************************************************************)
(* State                                                                   *)
(***************************************************************************)
VARIABLES
  channels,           \* table tv_channels
  items,              \* table tv_media_items
  stats,              \* table tv_channel_statistics
  nextStatId,         \* next generated id of tv_channel_statistics
  pc,                 \* where the sync run stands
  directCalls,        \* direct gateway calls made
  channelsConfig,     \* main: the configuration list of the run
  limitVideos,        \* main: the cap on videos per channel, 0 for none
  catalog,            \* which catalog the remote side answers from in this run
  idx,                \* main: position of the for loop in channelsConfig
  channelId,          \* main: the resolved remote id of the channel
  uploadsPlaylistId,  \* getVideosFromChannel: the uploads playlist
  nextPageToken,      \* getVideosFromChannel: continuation token, 0 for none
  videos,             \* getVideosFromChannel / main: the videos collected
  newRecords,         \* insertNewMediaItems: records of the bulk insert
  updates,            \* insertNewMediaItems: the videos sent as counter updates
  pending,            \* insertNewMediaItems: the updates still in flight
  channelStats,       \* main: the statistics fetched for the channel
  outcomes,           \* history: how each loop iteration of the run ended
  lst,                \* history of the current listing
  gw,                 \* history: the last persistence gateway call
  lastUpserted,       \* history: the last channel record upserted per slug
  dur,                \* a duration token and what the two duration functions make of it
  csv,                \* a field value and what escapeCSV and a parser make of it
  vpc,                \* where the export and the verification scripts stand
  files,              \* the export files on disk
  results,            \* runFullVerification: the results collected so far
  report,             \* the verification report on disk
  tamper              \* history: what was changed between export and verification

vars == <<channels, items, stats, nextStatId, pc, directCalls,
          channelsConfig, limitVideos, catalog, idx, channelId, uploadsPlaylistId,
          nextPageToken, videos, newRecords, updates, pending, channelStats,
          outcomes, lst, gw, lastUpserted, dur, csv, vpc, files, results, report,
          tamper>>

storeVars == <<channels, items, stats, nextStatId>>
scriptVars == <<csv, vpc, files, results, report, tamper>>
runVars == <<directCalls, channelsConfig, limitVideos, catalog, dur, scriptVars>>
syncVars == <<newRecords, updates, pending>>
listVars == <<uploadsPlaylistId, nextPageToken, videos>>

NoStats == [present |-> FALSE, subscriberCount |-> <<>>, viewCount |-> <<>>,
            videoCount |-> <<>>]

\* history of a listing: page requests issued (playlist pages and detail
\* batches), ids the filter has decided, whether a request or a mapping failed,
\* why the listing stopped ("" while it runs), the continuation token of the
\* last page received, and the number of videos it returned
NoListing == [requests |-> 0, examined |-> {}, failed |-> FALSE, stop |-> "",
              cursor |-> 0, count |-> 0]

\* history of a gateway call: the operation, whether a store request of it has
\* failed, whether it threw, whether it has returned; for a statistics call
\* also the channel and date of its record; the store fault it met
NoCall == [op |-> "", failed |-> FALSE, threw |-> FALSE, done |-> FALSE,
           slug |-> "", date |-> "", fault |-> ""]
Call(op, failed, threw, done) ==
  [op |-> op, failed |-> failed, threw |-> threw, done |-> done,
   slug |-> "", date |-> "", fault |-> ""]
StatisticsCalled(rec, fault, threw) ==
  [op |-> "upsertChannelStatistics", failed |-> threw, threw |-> threw, done |-> TRUE,
   slug |-> rec.channel_slug, date |-> rec.date, fault |-> fault]

\* what the store holds when the program first runs: nothing, or rows written
\* earlier (by this importer or by hand)
SeedChannels ==
  {ChannelRow("a", "Alpha", "UCa", "true", Earlier),
   ChannelRow("d", "Delta", NULL, "false", Earlier)}

SeedItems ==
  {[id |-> "v1", title |-> "t1-first", date |-> "2024-01-05", content_type |-> "podcast",
    duration |-> <<"2", ":", "0", "0">>, description |-> NULL, youtube_id |-> "v1",
    image |-> NULL, channel_slug |-> "a", youtube_url |-> YoutubeUrl("v1"),
    views |-> Some(7), likes |-> None, comments |-> None,
    apple_podcasts_url |-> NULL, created_at |-> Earlier]}

NoDuration == [stage |-> "", h |-> None, m |-> None, s |-> None, token |-> <<>>,
               seconds |-> 0, display |-> <<>>]

\* the program before the run, on a store holding rows
InitOn(chans, rows) ==
  /\ channels = chans
  /\ items = rows
  /\ stats = {}
  /\ nextStatId = 1
  /\ pc = "idle"
  /\ directCalls = 0
  /\ channelsConfig = <<>>
  /\ limitVideos = 0
  /\ catalog = 1
  /\ idx = 0
  /\ channelId = NULL
  /\ uploadsPlaylistId = NULL
  /\ nextPageToken = 0
  /\ videos = <<>>
  /\ newRecords = <<>>
  /\ updates = <<>>
  /\ pending = {}
  /\ channelStats = NoStats
  /\ outcomes = <<>>
  /\ lst = NoListing
  /\ gw = NoCall
  /\ lastUpserted = {}

NoCsv == [stage |-> "", value |-> None, escaped |-> <<>>, parsed |-> None]
NoFiles == [channels |-> None, videos |-> None, statistics |-> None, summary |-> None]
NoTamper == [kind |-> "none", was |-> 0]

\* the export and verification scripts not started, no file on disk
ScriptsOff ==
  /\ csv = NoCsv
  /\ vpc = "off"
  /\ files = NoFiles
  /\ results = <<>>
  /\ report = None
  /\ tamper = NoTamper

Init ==
  /\ InitOn({}, {}) \/ InitOn(SeedChannels, SeedItems)
  /\ dur = NoDuration
  /\ ScriptsOff

Cat == Catalogs[catalog]
channel == channelsConfig[idx]

(***************************************************************************)
(* main: the loop over the configuration list                              *)
(***************************************************************************)
\* where the for loop goes after the iteration at position i of n
LoopPc(i, n) == IF i < n THEN "upsert" ELSE "done"

\* the catch block of the loop body logs the error and lets the loop go on
AfterCatch_Rethrow(i, n) == "aborted"

AfterCatch(i, n) == LoopPc(i, n)

\* the end of one loop iteration: by falling through, by continue, or through
\* the catch block
EndIteration(result, nextPc) ==
  /\ outcomes' = Append(outcomes, [slug |-> channel.slug, result |-> result])
  /\ idx' = idx + 1
  /\ pc' = nextPc
  /\ channelId' = NULL
  /\ uploadsPlaylistId' = NULL
  /\ nextPageToken' = 0
  /\ videos' = <<>>
  /\ newRecords' = <<>>
  /\ updates' = <<>>
  /\ pending' = {}
  /\ channelStats' = NoStats

Continue(result) == EndIteration(result, LoopPc(idx, Len(channelsConfig)))
Caught(result) == EndIteration(result, AfterCatch(idx, Len(channelsConfig)))

\* the run starts: the configuration list is read, the cap is taken from the
\* command line; the remote side is in one of its states
StartRun ==
  /\ pc = "idle"
  /\ channelsConfig' \in Configs
  /\ limitVideos' \in Limits
  /\ catalog' \in 1..Len(Catalogs)
  /\ idx' = 1
  /\ pc' = "upsert"
  /\ outcomes' = <<>>
  /\ lst' = NoListing
  /\ gw' = NoCall
  /\ UNCHANGED <<storeVars, directCalls, channelId, listVars, syncVars, channelStats,
                 lastUpserted, dur, scriptVars>>

\* a plausible slip: the store error is logged and the function returns
upsertChannelThrows_Swallowed(error) == FALSE

\* upsertChannel: a store error is thrown to the caller
upsertChannelThrows(error) == error

\* await upsertChannel(channel)
UpsertChannelStep ==
  /\ pc = "upsert"
  /\ \E ok \in BOOLEAN :
       IF ok
       THEN /\ channels' = DbUpsertChannel(channels, ChannelRecord(channel), Today)
            /\ lastUpserted' = {r \in lastUpserted : r.slug # channel.slug}
                                 \cup {ChannelRecord(channel)}
            /\ gw' = Call("upsertChannel", FALSE, FALSE, TRUE)
            /\ pc' = "resolve"
            /\ UNCHANGED <<idx, channelId, listVars, syncVars, channelStats, outcomes>>
       ELSE IF upsertChannelThrows(~ok)
       THEN /\ gw' = Call("upsertChannel", TRUE, TRUE, TRUE)
            /\ Caught("error")
            /\ UNCHANGED <<channels, lastUpserted>>
       ELSE /\ gw' = Call("upsertChannel", TRUE, FALSE, TRUE)
            /\ pc' = "resolve"
            /\ UNCHANGED <<channels, lastUpserted, idx, channelId, listVars, syncVars,
                           channelStats, outcomes>>
  /\ lst' = NoListing
  /\ UNCHANGED <<items, stats, nextStatId, runVars>>

\* getChannelIdByUsername: the id of the first item, null when the response
\* lists none or the request fails
getChannelIdByUsername(cat, username, ok) ==
  IF ok THEN Lookup(cat.usernames, username, NULL) ELSE NULL

\* searchChannelByName: likewise
searchChannelByName(cat, name, ok) ==
  IF ok THEN Lookup(cat.search, name, NULL) ELSE NULL

\* the channel id main settles on: the configured id, else the lookup by
\* username (when one is configured), else the search by name
ResolvedChannelId(cat, ch, okUser, okSearch) ==
  LET configured == OrElse(ch.youtubeId, NULL)
      byUser == IF Falsy(configured) /\ ~Falsy(ch.youtubeUsername)
                THEN OrElse(getChannelIdByUsername(cat, ch.youtubeUsername, okUser), NULL)
                ELSE configured
  IN IF Falsy(byUser)
     THEN OrElse(searchChannelByName(cat, ch.name, okSearch), NULL)
     ELSE byUser

ResolveChannelId ==
  /\ pc = "resolve"
  /\ \E okUser, okSearch \in BOOLEAN :
       LET id == ResolvedChannelId(Cat, channel, okUser, okSearch)
       IN IF Falsy(id)
          THEN Continue("noChannelId")
          ELSE /\ channelId' = id
               /\ pc' = "playlist"
               /\ UNCHANGED <<idx, listVars, syncVars, channelStats, outcomes>>
  /\ UNCHANGED <<storeVars, runVars, lst, gw, lastUpserted>>

\* getUploadsPlaylistId
getUploadsPlaylistId(cat, id, ok) == IF ok THEN Lookup(cat.uploads, id, NULL) ELSE NULL

\* getVideosFromChannel up to its loop: without an uploads playlist it returns
\* no videos, and main goes on to the next channel
GetUploadsPlaylist ==
  /\ pc = "playlist"
  /\ \E ok \in BOOLEAN :
       LET pl == getUploadsPlaylistId(Cat, channelId, ok)
       IN IF Falsy(pl)
          THEN /\ lst' = [NoListing EXCEPT !.stop = "noPlaylist"]
               /\ Continue("noVideos")
          ELSE /\ uploadsPlaylistId' = pl
               /\ nextPageToken' = 0
               /\ videos' = <<>>
               /\ lst' = NoListing
               /\ pc' = "page"
               /\ UNCHANGED <<idx, channelId, syncVars, channelStats, outcomes>>
  /\ UNCHANGED <<storeVars, runVars, gw, lastUpserted>>

\* the catch block inside the listing loop logs the error and breaks: the
\* function returns the videos collected so far
ListingCatch_Rethrow(vids) == [threw |-> TRUE, videos |-> <<>>]

ListingCatch(vids) == [threw |-> FALSE, videos |-> vids]

\* one iteration of the listing loop, given the page pg that the playlist
\* request returns and the result loop of the mapping loop over the detail
\* batch of its ids: the playlist page request, the detail batch request,
\* the mapping loop, the continuation.  out says which request fails, if any.
PageOutcome(pg, loop, token, vids, out) ==
  IF out = "playlistFail"
  THEN [stop |-> "error", videos |-> vids, requests |-> 1, examined |-> {},
        cursor |-> 0, nextPageToken |-> token]
  ELSE IF ~pg.hasItems
  THEN [stop |-> "noItems", videos |-> vids, requests |-> 1, examined |-> {},
        cursor |-> pg.nextPageToken, nextPageToken |-> token]
  ELSE IF Len(VideoIdsOf(pg)) = 0
  THEN [stop |-> "noIds", videos |-> vids, requests |-> 1, examined |-> {},
        cursor |-> pg.nextPageToken, nextPageToken |-> token]
  ELSE IF out = "detailsFail"
  THEN [stop |-> "error", videos |-> vids, requests |-> 2, examined |-> {},
        cursor |-> pg.nextPageToken, nextPageToken |-> token]
  ELSE IF loop.status = "threw"
  THEN [stop |-> "error", videos |-> loop.videos, requests |-> 2,
        examined |-> loop.examined, cursor |-> pg.nextPageToken, nextPageToken |-> token]
  ELSE IF loop.status = "limit"
  THEN [stop |-> "limit", videos |-> loop.videos, requests |-> 2,
        examined |-> loop.examined, cursor |-> pg.nextPageToken, nextPageToken |-> token]
  ELSE IF pg.nextPageToken = 0
  THEN [stop |-> "noCursor", videos |-> loop.videos, requests |-> 2,
        examined |-> loop.examined, cursor |-> 0, nextPageToken |-> 0]
  ELSE [stop |-> "", videos |-> loop.videos, requests |-> 2, examined |-> loop.examined,
        cursor |-> pg.nextPageToken, nextPageToken |-> pg.nextPageToken]

\* the page that a token asks for: the first page without a token
PageAt(cat, playlistId, token) == cat.pages[playlistId][IF token = 0 THEN 1 ELSE token]

PageResult(cat, playlistId, token, vids, limit, out) ==
  CHOOSE res \in
    UNION { { PageOutcome(pg, loop, token, vids, out)
              : loop \in { MapLoop(vids, detailItems, 1, limit, {})
                           : detailItems \in {DetailItems(cat, VideoIdsOf(pg))} } }
            : pg \in {PageAt(cat, playlistId, token)} } : TRUE

\* what the listing gives its caller once the loop has stopped
ListingReturn(r) ==
  IF r.stop = "error" THEN ListingCatch(r.videos) ELSE [threw |-> FALSE, videos |-> r.videos]

ListPage ==
  /\ pc = "page"
  /\ \E out \in {"ok", "playlistFail", "detailsFail"} :
     \E r \in {PageResult(Cat, uploadsPlaylistId, nextPageToken, videos, limitVideos, out)} :
     \E ret \in {ListingReturn(r)} :
       /\ lst' = [requests |-> lst.requests + r.requests,
                  examined |-> lst.examined \cup r.examined,
                  failed |-> r.stop = "error",
                  stop |-> r.stop,
                  cursor |-> r.cursor,
                  count |-> IF r.stop = "" THEN 0 ELSE Len(ret.videos)]
       /\ IF r.stop = ""
          THEN \* the loop goes round
               /\ videos' = r.videos
               /\ nextPageToken' = r.nextPageToken
               /\ UNCHANGED <<pc, idx, channelId, uploadsPlaylistId, syncVars,
                              channelStats, outcomes>>
          ELSE IF ret.threw
          THEN Caught("error")
          ELSE IF Len(ret.videos) = 0
          THEN \* main: no videos found, continue
               Continue("noVideos")
          ELSE /\ videos' = ret.videos
               /\ nextPageToken' = r.nextPageToken
               /\ pc' = "sync"
               /\ UNCHANGED <<idx, channelId, uploadsPlaylistId, syncVars,
                              channelStats, outcomes>>
  /\ UNCHANGED <<storeVars, runVars, gw, lastUpserted>>

(***************************************************************************)
(* insertNewMediaItems(channel.slug, videos)                               *)
(***************************************************************************)
\* the loop over the batch: the videos whose id is stored for the channel
\* become counter updates, the others become records of the bulk insert
UpdatesOf(existingIds, vids) == SelectSeq(vids, LAMBDA v : v.id \in existingIds)

NewRecordsOf(existingIds, vids, channelSlug) ==
  LET fresh == SelectSeq(vids, LAMBDA v : v.id \notin existingIds)
  IN [i \in 1..Len(fresh) |-> NewRecord(channelSlug, fresh[i])]

\* the read of the existing ids, the partition, and the dispatch of the
\* updates, which are then in flight together
SyncStart ==
  /\ pc = "sync"
  /\ \E ok \in BOOLEAN :
       IF ok
       THEN \E existingIds \in {SelectIds(items, channel.slug)} :
            \E ups \in {UpdatesOf(existingIds, videos)} :
               /\ updates' = ups
               /\ pending' = 1..Len(ups)
               /\ newRecords' = NewRecordsOf(existingIds, videos, channel.slug)
               /\ pc' = IF Len(ups) > 0 THEN "updates" ELSE "insert"
               /\ gw' = Call("insertNewMediaItems", FALSE, FALSE, FALSE)
               /\ UNCHANGED <<idx, channelId, listVars, channelStats, outcomes>>
       ELSE /\ gw' = Call("insertNewMediaItems", TRUE, TRUE, TRUE)
            /\ Caught("error")
  /\ UNCHANGED <<storeVars, runVars, lst, lastUpserted>>

\* one of the updates in flight completes; the store answers with a result
\* object that the code does not look at.  After the last one Promise.all
\* resolves and the function goes on to the insert, or returns.
ApplyUpdate(i) ==
  /\ pc = "updates"
  /\ i \in pending
  /\ \E ok \in BOOLEAN :
       /\ items' = IF ok THEN DbUpdateItem(items, updates[i]) ELSE items
       /\ pending' = pending \ {i}
       /\ IF pending' # {}
          THEN /\ gw' = [gw EXCEPT !.failed = gw.failed \/ ~ok]
               /\ UNCHANGED <<pc, updates, newRecords>>
          ELSE IF Len(newRecords) > 0
          THEN /\ gw' = [gw EXCEPT !.failed = gw.failed \/ ~ok]
               /\ pc' = "insert"
               /\ UNCHANGED <<updates, newRecords>>
          ELSE /\ gw' = Call("insertNewMediaItems", gw.failed \/ ~ok, FALSE, TRUE)
               /\ pc' = "stats"
               /\ updates' = <<>>
               /\ newRecords' = <<>>
  /\ UNCHANGED <<channels, stats, nextStatId, runVars, idx, channelId, listVars,
                 channelStats, outcomes, lst, lastUpserted>>

\* the bulk insert of the new records
SyncInsert ==
  /\ pc = "insert"
  /\ \E ok \in BOOLEAN :
       IF ok /\ ~InsertRejected(items, channels, newRecords)
       THEN /\ items' = DbInsertItems(items, newRecords, Today)
            /\ gw' = Call("insertNewMediaItems", gw.failed, FALSE, TRUE)
            /\ pc' = "stats"
            /\ updates' = <<>>
            /\ newRecords' = <<>>
            /\ pending' = {}
            /\ UNCHANGED <<idx, channelId, listVars, channelStats, outcomes>>
       ELSE /\ gw' = [Call("insertNewMediaItems", TRUE, TRUE, TRUE)
                         EXCEPT !.fault = IF ok THEN "rejected" ELSE "insert"]
            /\ Caught("error")
            /\ UNCHANGED items
  /\ UNCHANGED <<channels, stats, nextStatId, runVars, lst, lastUpserted>>

(***************************************************************************)
(* Channel statistics                                                      *)
(***************************************************************************)
\* fetchChannelStatistics: the statistics of the first item, {} when the
\* response lists none, carries none, or the request fails
fetchChannelStatistics(cat, id, ok) ==
  IF ok THEN Lookup(cat.statistics, id, NoStats) ELSE NoStats

\* main: the statistics are fetched; an empty object is not stored
FetchStats ==
  /\ pc = "stats"
  /\ \E ok \in BOOLEAN :
       LET st == fetchChannelStatistics(Cat, channelId, ok)
       IN IF st.present
          THEN /\ channelStats' = st
               /\ pc' = "statsUpsert"
               /\ UNCHANGED <<idx, channelId, listVars, syncVars, outcomes>>
          ELSE Continue("success")
  /\ UNCHANGED <<storeVars, runVars, lst, gw, lastUpserted>>

\* upsertChannelStatistics(channelSlug, statistics, date) on the store: fail
\* says which store request fails, if any
StatisticsCall(channelSlug, statistics, date, fail) ==
  \E rec \in {StatisticsRecord(items, channelSlug, statistics, date, Today)} :
     IF fail = "select"
     THEN /\ gw' = StatisticsCalled(rec, fail, TRUE)
          /\ UNCHANGED <<stats, nextStatId>>
     ELSE IF fail = "upsert" \/ StatisticsRejected(stats, channels, rec)
     THEN /\ gw' = StatisticsCalled(rec, fail, TRUE)
          /\ UNCHANGED <<stats, nextStatId>>
     ELSE /\ stats' = DbUpsertStatistics(stats, rec, nextStatId, Today)
          /\ nextStatId' = nextStatId + 1
          /\ gw' = StatisticsCalled(rec, fail, FALSE)

\* a plausible slip: without the inner try, the error reaches the catch block
\* of the loop body
AfterStatistics_Uncaught(threw) == IF threw THEN "error" ELSE "success"

\* main: the try around the statistics catches and logs what
\* upsertChannelStatistics throws, and the iteration goes on to its last line
AfterStatistics(threw) == "success"

\* main: the statistics are stored; a failure is caught and logged, and the
\* channel is reported as processed either way
UpsertStats ==
  /\ pc = "statsUpsert"
  /\ \E fail \in {"none", "select", "upsert"} :
       StatisticsCall(channel.slug, channelStats, NULL, fail)
  /\ Continue(AfterStatistics(gw'.threw))
  /\ UNCHANGED <<channels, items, runVars, lst, lastUpserted>>

\* upsertChannelStatistics called on its own, with or without a date
DirectUpsertChannelStatistics ==
  /\ pc = "done"
  /\ directCalls < MaxDirectCalls
  /\ directCalls' = directCalls + 1
  /\ \E slug \in {"a", "d"}, date \in {NULL, Earlier},
        fail \in {"none", "select", "upsert"} :
       StatisticsCall(slug, Catalog1.statistics["UCa"], date, fail)
  /\ UNCHANGED <<channels, items, pc, channelsConfig, limitVideos, catalog,
                 idx, channelId, listVars, syncVars, channelStats, outcomes, lst,
                 lastUpserted, dur, scriptVars>>

Next ==
  \/ StartRun
  \/ UpsertChannelStep
  \/ ResolveChannelId
  \/ GetUploadsPlaylist
  \/ ListPage
  \/ SyncStart
  \/ \E i \in pending : ApplyUpdate(i)
  \/ SyncInsert
  \/ FetchStats
  \/ UpsertStats
  \/ DirectUpsertChannelStatistics

Spec == Init /\ [][Next]_vars

(***************************************************************************)
(* The duration functions on their own: a token is drawn, then parsed,     *)
(* then formatted                                                          *)
(***************************************************************************)
\* the largest of the small component values tried
MaxComponent == 3
ComponentValues == (0..MaxComponent) \cup {9, 10, 59, 60, 75, 100}
Components == {None} \cup {Some(n) : n \in ComponentValues}

\* the text of an optional component: its decimal digits and its unit
ComponentText(c, unit) == IF c = None THEN <<>> ELSE NumToString(c[1]) \o <<unit>>

\* the token PT#H#M#S of the components
TokenOf(h, m, s) ==
  <<"P", "T">> \o ComponentText(h, "H") \o ComponentText(m, "M") \o ComponentText(s, "S")

\* tokens the pattern does not match
Unparseable == {<<>>, <<"P">>, <<"1", "H">>, <<"P", "1", "D">>, <<"T", "P", "5", "M">>}

InitDuration ==
  /\ InitOn({}, {})
  /\ ScriptsOff
  /\ \/ \E h, m, s \in Components :
          dur = [stage |-> "token", h |-> h, m |-> m, s |-> s, token |-> TokenOf(h, m, s),
                 seconds |-> 0, display |-> <<>>]
     \/ \E t \in Unparseable :
          dur = [stage |-> "token", h |-> None, m |-> None, s |-> None, token |-> t,
                 seconds |-> 0, display |-> <<>>]

ParseStep ==
  /\ dur.stage = "token"
  /\ dur' = [dur EXCEPT !.stage = "parsed", !.seconds = parseDurationToSeconds(dur.token)]
  /\ UNCHANGED <<storeVars, pc, directCalls, channelsConfig, limitVideos, catalog, idx,
                 channelId, listVars, syncVars, channelStats, outcomes, lst, gw,
                 lastUpserted, scriptVars>>

FormatStep ==
  /\ dur.stage = "parsed"
  /\ dur' = [dur EXCEPT !.stage = "shown", !.display = formatDuration(dur.token)]
  /\ UNCHANGED <<storeVars, pc, directCalls, channelsConfig, limitVideos, catalog, idx,
                 channelId, listVars, syncVars, channelStats, outcomes, lst, gw,
                 lastUpserted, scriptVars>>

NextDuration == ParseStep \/ FormatStep

SpecDuration == InitDuration /\ [][NextDuration]_vars

(***************************************************************************)
(* Delimited text (export script, escapeCSV and arrayToCSV).  A text is a  *)
(* sequence of characters; a value handed to escapeCSV is None for null or *)
(* undefined and Some(text) for the text String(value) of anything else.   *)
(***************************************************************************)
Comma == ","
Quote == "\""
Newline == "\n"

\* String.prototype.includes for a single character
IncludesChar(str, c) == \E i \in 1..Len(str) : str[i] = c

RECURSIVE DoubleQuotes(_)
\* str.replace(/"/g, '""')
DoubleQuotes(str) ==
  IF str = <<>> THEN <<>>
  ELSE (IF str[1] = Quote THEN <<Quote, Quote>> ELSE <<str[1]>>)
       \o DoubleQuotes(SubSeq(str, 2, Len(str)))

\* a plausible slip: the field is wrapped but its quotes are not doubled
escapeCSV_NoDoubling(value) ==
  IF value = None THEN <<>>
  ELSE LET str == value[1]
       IN IF IncludesChar(str, Comma) \/ IncludesChar(str, Quote) \/ IncludesChar(str, Newline)
          THEN <<Quote>> \o str \o <<Quote>>
          ELSE str

escapeCSV(value) ==
  IF value = None THEN <<>>
  ELSE LET str == value[1]
       IN IF IncludesChar(str, Comma) \/ IncludesChar(str, Quote) \/ IncludesChar(str, Newline)
          THEN <<Quote>> \o DoubleQuotes(str) \o <<Quote>>
          ELSE str

RECURSIVE Undoubled(_)
\* the text of the inside of a quoted field: every pair of quotes read as one
\* quote; None when a quote stands alone
Undoubled(str) ==
  IF str = <<>> THEN Some(<<>>)
  ELSE IF str[1] # Quote
  THEN LET rest == Undoubled(SubSeq(str, 2, Len(str)))
       IN IF rest = None THEN None ELSE Some(<<str[1]>> \o rest[1])
  ELSE IF Len(str) >= 2 /\ str[2] = Quote
  THEN LET rest == Undoubled(SubSeq(str, 3, Len(str)))
       IN IF rest = None THEN None ELSE Some(<<Quote>> \o rest[1])
  ELSE None

\* what a parser of delimited text reads from one field: a field that opens
\* with a quote must close with one and is read with its quote pairs undone,
\* any other field must be free of commas, quotes and newlines and is read as
\* it stands; None when the field is malformed
ParseCSVField(text) ==
  IF text # <<>> /\ text[1] = Quote
  THEN IF Len(text) >= 2 /\ text[Len(text)] = Quote
       THEN Undoubled(SubSeq(text, 2, Len(text) - 1))
       ELSE None
  ELSE IF IncludesChar(text, Comma) \/ IncludesChar(text, Quote) \/ IncludesChar(text, Newline)
  THEN None
  ELSE Some(text)

\* the longest of the field texts tried, and the characters they are made of
MaxFieldLen == 3
FieldChars == {"a", " ", Comma, Quote, Newline}
FieldTexts == UNION {[1..k -> FieldChars] : k \in 0..MaxFieldLen}

\* He said "hi", ok
HeSaidHi ==
  <<"H", "e", " ", "s", "a", "i", "d", " ", Quote, "h", "i", Quote, Comma, " ", "o", "k">>

InitCSV ==
  /\ InitOn({}, {})
  /\ dur = NoDuration
  /\ vpc = "off" /\ files = NoFiles /\ results = <<>> /\ report = None /\ tamper = NoTamper
  /\ \E v \in {None} \cup {Some(t) : t \in FieldTexts \cup {HeSaidHi}} :
       csv = [stage |-> "value", value |-> v, escaped |-> <<>>, parsed |-> None]

EscapeStep ==
  /\ csv.stage = "value"
  /\ csv' = [csv EXCEPT !.stage = "escaped", !.escaped = escapeCSV(csv.value)]
  /\ UNCHANGED <<storeVars, pc, directCalls, channelsConfig, limitVideos, catalog, idx,
                 channelId, listVars, syncVars, channelStats, outcomes, lst, gw,
                 lastUpserted, dur, vpc, files, results, report, tamper>>

ParseFieldStep ==
  /\ csv.stage = "escaped"
  /\ csv' = [csv EXCEPT !.stage = "parsed", !.parsed = ParseCSVField(csv.escaped)]
  /\ UNCHANGED <<storeVars, pc, directCalls, channelsConfig, limitVideos, catalog, idx,
                 channelId, listVars, syncVars, channelStats, outcomes, lst, gw,
                 lastUpserted, dur, vpc, files, results, report, tamper>>

NextCSV == EscapeStep \/ ParseFieldStep

SpecCSV == InitCSV /\ [][NextCSV]_vars

(***************************************************************************)
(* The export script: the three delimited-text files and the summary       *)
(***************************************************************************)
\* String(value) of a number
IntToString(n) == IF n < 0 THEN <<"-">> \o NumToString(0 - n) ELSE NumToString(n)

\* the value of a text column as handed to escapeCSV; a text column holds
\* <<>> both for null and for the empty string, which escapeCSV and the
\* truthiness tests of the scripts treat alike
TextValue(t) == IF t = <<>> THEN None ELSE Some(t)

\* the value of a number column as handed to escapeCSV
NumberValue(o) == IF o = None THEN None ELSE Some(IntToString(o[1]))

\* the value of the visible column as handed to escapeCSV
VisibleValue(v) ==
  IF v = NULL THEN None
  ELSE IF v = "true" THEN Some(<<"t", "r", "u", "e">>)
  ELSE Some(<<"f", "a", "l", "s", "e">>)

RECURSIVE Join(_, _)
\* Array.prototype.join
Join(texts, sep) ==
  IF texts = <<>> THEN <<>>
  ELSE IF Len(texts) = 1 THEN texts[1]
  ELSE texts[1] \o sep \o Join(Tail(texts), sep)

\* arrayToCSV: the header line, then one line per row, its cells escaped
arrayToCSV(data, headers) ==
  Join(<<Join(headers, <<Comma>>)>>
       \o [i \in 1..Len(data) |->
             Join([j \in 1..Len(data[i]) |-> escapeCSV(data[i][j])], <<Comma>>)],
       <<Newline>>)

RECURSIVE RowSeq(_)
\* the rows of a select without an order clause, in the order the store
\* returns them
RowSeq(S) ==
  IF S = {} THEN <<>>
  ELSE LET r == CHOOSE x \in S : TRUE IN <<r>> \o RowSeq(S \ {r})

getAllChannels(chans) == RowSeq(chans)
getChannelMediaItems(rows, channelSlug) ==
  RowSeq({r \in rows : r.channel_slug = channelSlug})

\* the number a calendar day sorts by: its digits read as one number
DateKey(date) == DigitsValue(SelectSeq(date, IsDigit))

RECURSIVE ByDateDescending(_)
ByDateDescending(S) ==
  IF S = {} THEN <<>>
  ELSE LET r == CHOOSE x \in S : \A y \in S : DateKey(y.date) <= DateKey(x.date)
       IN <<r>> \o ByDateDescending(S \ {r})

\* order('date', {ascending: false}).limit(days)
getChannelStatisticsHistory(statRows, channelSlug, days) ==
  LET sorted == ByDateDescending({r \in statRows : r.channel_slug = channelSlug})
  IN SubSeq(sorted, 1, IF Len(sorted) < days THEN Len(sorted) ELSE days)

RECURSIVE Concat(_)
\* the concatenation of a sequence of sequences
Concat(seqs) == IF seqs = <<>> THEN <<>> ELSE seqs[1] \o Concat(Tail(seqs))

ChannelHeaders ==
  <<<<"s", "l", "u", "g">>,
    <<"n", "a", "m", "e">>,
    <<"y", "o", "u", "t", "u", "b", "e", "_", "i", "d">>,
    <<"v", "i", "s", "i", "b", "l", "e">>,
    <<"c", "r", "e", "a", "t", "e", "d", "_", "a", "t">>>>

VideoHeaders ==
  <<<<"i", "d">>,
    <<"t", "i", "t", "l", "e">>,
    <<"d", "a", "t", "e">>,
    <<"c", "o", "n", "t", "e", "n", "t", "_", "t", "y", "p", "e">>,
    <<"d", "u", "r", "a", "t", "i", "o", "n">>,
    <<"d", "e", "s", "c", "r", "i", "p", "t", "i", "o", "n">>,
    <<"y", "o", "u", "t", "u", "b", "e", "_", "i", "d">>,
    <<"i", "m", "a", "g", "e">>,
    <<"c", "h", "a", "n", "n", "e", "l", "_", "s", "l", "u", "g">>,
    <<"y", "o", "u", "t", "u", "b", "e", "_", "u", "r", "l">>,
    <<"v", "i", "e", "w", "s">>,
    <<"l", "i", "k", "e", "s">>,
    <<"c", "o", "m", "m", "e", "n", "t", "s">>,
    <<"a", "p", "p", "l", "e", "_", "p", "o", "d", "c", "a", "s", "t", "s",
  "_", "u", "r", "l">>,
    <<"c", "r", "e", "a", "t", "e", "d", "_", "a", "t">>>>

StatisticsHeaders ==
  <<<<"i", "d">>,
    <<"c", "h", "a", "n", "n", "e", "l", "_", "s", "l", "u", "g">>,
    <<"d", "a", "t", "e">>,
    <<"s", "u", "b", "s", "c", "r", "i", "b", "e", "r", "_", "c", "o", "u",
  "n", "t">>,
    <<"t", "o", "t", "a", "l", "_", "c", "h", "a", "n", "n", "e", "l", "_",
  "v", "i", "e", "w", "s">>,
    <<"t", "o", "t", "a", "l", "_", "v", "i", "d", "e", "o", "s">>,
    <<"c", "a", "l", "c", "u", "l", "a", "t", "e", "d", "_", "t", "o", "t",
  "a", "l", "_", "l", "i", "k", "e", "s">>,
    <<"c", "a", "l", "c", "u", "l", "a", "t", "e", "d", "_", "t", "o", "t",
  "a", "l", "_", "c", "o", "m", "m", "e", "n", "t", "s">>,
    <<"c", "r", "e", "a", "t", "e", "d", "_", "a", "t">>>>

\* row[header] for the headers of the channels file
ChannelCells(r) ==
  <<TextValue(r.slug), TextValue(r.name), TextValue(r.youtube_id), VisibleValue(r.visible),
    TextValue(r.created_at)>>

\* row[header] for the headers of the videos file
VideoCells(r) ==
  <<TextValue(r.id), TextValue(r.title), TextValue(r.date), TextValue(r.content_type),
    TextValue(r.duration), TextValue(r.description), TextValue(r.youtube_id),
    TextValue(r.image), TextValue(r.channel_slug), TextValue(r.youtube_url),
    NumberValue(r.views), NumberValue(r.likes), NumberValue(r.comments),
    TextValue(r.apple_podcasts_url), TextValue(r.created_at)>>

\* row[header] for the headers of the statistics file
StatisticsCells(r) ==
  <<Some(IntToString(r.id)), TextValue(r.channel_slug), TextValue(r.date),
    NumberValue(r.subscriber_count), NumberValue(r.total_channel_views),
    NumberValue(r.total_videos), Some(IntToString(r.calculated_total_likes)),
    Some(IntToString(r.calculated_total_comments)), TextValue(r.created_at)>>

\* exportChannelsToCSV: the text written to export_channels.csv
ChannelsCSV(chans) ==
  LET all == getAllChannels(chans)
  IN arrayToCSV([i \in 1..Len(all) |-> ChannelCells(all[i])], ChannelHeaders)

\* the rows of every stored channel, channel after channel
AllVideos(chans, rows) ==
  LET all == getAllChannels(chans)
  IN Concat([i \in 1..Len(all) |-> getChannelMediaItems(rows, all[i].slug)])

\* exportVideosToCSV: the text written to export_videos.csv
VideosCSV(chans, rows) ==
  LET allVideos == AllVideos(chans, rows)
  IN arrayToCSV([i \in 1..Len(allVideos) |-> VideoCells(allVideos[i])], VideoHeaders)

\* the statistics history limit of the export
HistoryDays == 365

\* exportChannelStatisticsToCSV: the text written to export_channel_statistics.csv
StatisticsCSV(chans, statRows) ==
  LET all == getAllChannels(chans)
      allStats == Concat([i \in 1..Len(all) |->
                            getChannelStatisticsHistory(statRows, all[i].slug, HistoryDays)])
  IN arrayToCSV([i \in 1..Len(allStats) |-> StatisticsCells(allStats[i])], StatisticsHeaders)

\* generateSummaryReport: the object written to export_summary.json.  The
\* file holds integers and a map keyed by slug, which JSON.stringify and
\* JSON.parse carry over unchanged; the summary is kept as the object.
SummaryReport(chans, rows, now) ==
  LET all == getAllChannels(chans)
  IN [total_channels |-> Len(all),
      channels_by_visibility |->
        [visible |-> Len(SelectSeq(all, LAMBDA c : c.visible = "true")),
         hidden |-> Len(SelectSeq(all, LAMBDA c : c.visible # "true")),
         null_visibility |-> Len(SelectSeq(all, LAMBDA c : c.visible = NULL))],
      channels_with_youtube_id |-> Len(SelectSeq(all, LAMBDA c : c.youtube_id # <<>>)),
      total_videos |-> Len(AllVideos(chans, rows)),
      videos_per_channel |->
        [s \in {c.slug : c \in chans} |-> Len(getChannelMediaItems(rows, s))],
      export_timestamp |-> now]

(***************************************************************************)
(* The verification script: the four checks and the report                 *)
(***************************************************************************)
\* String.prototype.split('\n'): the texts between the newlines
RECURSIVE Split(_)
Split(text) ==
  LET N == {i \in 1..Len(text) : text[i] = Newline}
  IN IF N = {} THEN <<text>>
     ELSE LET n == SetMin(N)
          IN <<SubSeq(text, 1, n - 1)>> \o Split(SubSeq(text, n + 1, Len(text)))

\* the characters String.prototype.trim removes, among those of the texts
WhiteSpace == {" ", Newline, "\r", "\t"}

\* String.prototype.trim
Trim(line) ==
  LET K == {i \in 1..Len(line) : line[i] \notin WhiteSpace}
  IN IF K = {} THEN <<>> ELSE SubSeq(line, SetMin(K), SetMax(K))

\* the character class [a-zA-Z0-9_-]
IdChars ==
  {"a", "b", "c", "d", "e", "f", "g", "h", "i", "j", "k", "l", "m", "n",
   "o", "p", "q", "r", "s", "t", "u", "v", "w", "x", "y", "z", "A", "B",
   "C", "D", "E", "F", "G", "H", "I", "J", "K", "L", "M", "N", "O", "P",
   "Q", "R", "S", "T", "U", "V", "W", "X", "Y", "Z", "0", "1", "2", "3",
   "4", "5", "6", "7", "8", "9", "_", "-"}

\* the length of the identifier the row-start pattern looks for
IdLength == 11

\* /^[a-zA-Z0-9_-]{11},/.test(line)
LooksLikeRecord(line) ==
  /\ Len(line) > IdLength
  /\ \A i \in 1..IdLength : line[i] \in IdChars
  /\ line[IdLength + 1] = Comma

\* (line.match(/"/g) || []).length
QuotesIn(line) == Cardinality({i \in 1..Len(line) : line[i] = Quote})

RECURSIVE CountRecords(_, _, _, _)
\* the loop of parseCSVRecordCount from line i on
CountRecords(lines, i, recordCount, inQuotes) ==
  IF i > Len(lines) THEN recordCount
  ELSE LET line == Trim(lines[i])
       IN IF line = <<>> THEN CountRecords(lines, i + 1, recordCount, inQuotes)
          ELSE CountRecords(lines, i + 1,
                 IF ~inQuotes /\ LooksLikeRecord(line) THEN recordCount + 1 ELSE recordCount,
                 IF QuotesIn(line) % 2 = 1 THEN ~inQuotes ELSE inQuotes)

\* a plausible slip: the quote state is not tracked
parseCSVRecordCount_NoQuoteState(csvContent) ==
  Len(SelectSeq(Tail(Split(csvContent)), LAMBDA l : LooksLikeRecord(Trim(l))))

parseCSVRecordCount(csvContent) == CountRecords(Split(csvContent), 2, 0, FALSE)

\* a VerificationResult: passed, the entries of its details, and whether it
\* stands for a check that threw
Result(passed, details) == [passed |-> passed, threw |-> FALSE, details |-> details]
Thrown == [passed |-> FALSE, threw |-> TRUE, details |-> <<>>]

\* an entry of a result's details: what is wrong, and with which item and
\* channel
Issue(kind, id, slug) == [kind |-> kind, id |-> id, slug |-> slug]

\* verifyChannelCounts; storeOk: the store answers the reads of the check
verifyChannelCounts(chans, fs, storeOk) ==
  IF ~storeOk \/ fs.summary = None THEN Thrown
  ELSE Result(Len(getAllChannels(chans)) = fs.summary[1].total_channels, <<>>)

\* summary.videos_per_channel[channel.slug] || 0
SummaryCount(summary, slug) ==
  IF slug \in DOMAIN summary.videos_per_channel THEN summary.videos_per_channel[slug] ELSE 0

\* a plausible slip: the total is not compared
verifyVideoCounts_NoTotal(chans, rows, fs, storeOk) ==
  IF ~storeOk \/ fs.summary = None THEN Thrown
  ELSE LET all == getAllChannels(chans)
           summary == fs.summary[1]
           bad == SelectSeq(all, LAMBDA c :
                    Len(getChannelMediaItems(rows, c.slug)) # SummaryCount(summary, c.slug))
       IN Result(Len(bad) = 0, [i \in 1..Len(bad) |-> Issue("countMismatch", <<>>, bad[i].slug)])

verifyVideoCounts(chans, rows, fs, storeOk) ==
  IF ~storeOk \/ fs.summary = None THEN Thrown
  ELSE LET all == getAllChannels(chans)
           summary == fs.summary[1]
           totalDbVideos == Len(AllVideos(chans, rows))
           bad == SelectSeq(all, LAMBDA c :
                    Len(getChannelMediaItems(rows, c.slug)) # SummaryCount(summary, c.slug))
           channelMismatches == [i \in 1..Len(bad) |-> Issue("countMismatch", <<>>, bad[i].slug)]
       IN IF totalDbVideos # summary.total_videos THEN Result(FALSE, channelMismatches)
          ELSE IF Len(channelMismatches) > 0 THEN Result(FALSE, channelMismatches)
          ELSE Result(TRUE, <<>>)

\* 'youtube.com/watch?v='
WatchLink ==
  <<"y", "o", "u", "t", "u", "b", "e", ".", "c", "o", "m", "/", "w", "a", "t", "c", "h", "?", "v", "=">>

\* String.prototype.includes
Includes(str, sub) ==
  \E i \in 1..(Len(str) - Len(sub) + 1) : SubSeq(str, i, i + Len(sub) - 1) = sub

\* a plausible slip: a counter of -1 is let through
IsNegative_BelowMinusOne(o) == o # None /\ o[1] < 0 - 1

\* value !== null && value < 0
IsNegative(o) == o # None /\ o[1] < 0

\* the issues the sweep finds on one media item, in the order of its tests
IssuesOfVideo(video, slug) ==
  (IF video.id = <<>> THEN <<Issue("missingId", <<>>, slug)>> ELSE <<>>)
  \o (IF video.title = <<>> THEN <<Issue("missingTitle", video.id, slug)>> ELSE <<>>)
  \o (IF video.date = <<>> THEN <<Issue("missingDate", video.id, slug)>> ELSE <<>>)
  \o (IF video.youtube_url # <<>> /\ ~Includes(video.youtube_url, WatchLink)
      THEN <<Issue("invalidUrl", video.id, slug)>> ELSE <<>>)
  \o (IF IsNegative(video.views) THEN <<Issue("negativeViews", video.id, slug)>> ELSE <<>>)
  \o (IF IsNegative(video.likes) THEN <<Issue("negativeLikes", video.id, slug)>> ELSE <<>>)
  \o (IF IsNegative(video.comments)
      THEN <<Issue("negativeComments", video.id, slug)>> ELSE <<>>)

\* the issues the sweep finds on one channel and its media items
IssuesOfChannel(c, rows) ==
  LET vids == getChannelMediaItems(rows, c.slug)
  IN (IF c.youtube_id = <<>> THEN <<Issue("missingYoutubeId", <<>>, c.slug)>> ELSE <<>>)
     \o Concat([i \in 1..Len(vids) |-> IssuesOfVideo(vids[i], c.slug)])

\* every issue of the sweep, in the order found
IntegrityIssues(chans, rows) ==
  LET all == getAllChannels(chans)
  IN Concat([i \in 1..Len(all) |-> IssuesOfChannel(all[i], rows)])

\* the number of issues a failed integrity result shows
ShownIssuesLimit == 20

\* issues.slice(0, 20)
ShownIssues(issues) ==
  SubSeq(issues, 1, IF Len(issues) < ShownIssuesLimit THEN Len(issues) ELSE ShownIssuesLimit)

verifyDataIntegrity(chans, rows, storeOk) ==
  IF ~storeOk THEN Thrown
  ELSE \* the sweep is bound once: it is used for the test and for the details
       CHOOSE res \in {IF Len(issues) > 0 THEN Result(FALSE, ShownIssues(issues))
                       ELSE Result(TRUE, <<>>) : issues \in {IntegrityIssues(chans, rows)}} : TRUE

\* the required files that are not on disk, in the order tested
MissingFiles(fs) ==
  (IF fs.channels = None THEN <<Issue("missingFile", <<>>, <<"channels">>)>> ELSE <<>>)
  \o (IF fs.videos = None THEN <<Issue("missingFile", <<>>, <<"videos">>)>> ELSE <<>>)
  \o (IF fs.statistics = None THEN <<Issue("missingFile", <<>>, <<"statistics">>)>> ELSE <<>>)
  \o (IF fs.summary = None THEN <<Issue("missingFile", <<>>, <<"summary">>)>> ELSE <<>>)

\* channelsContent.split('\n').filter(line => line.trim() !== '').length - 1
ChannelLines(channelsContent) ==
  Len(SelectSeq(Split(channelsContent), LAMBDA l : Trim(l) # <<>>)) - 1

verifyCSVFiles(fs) ==
  IF MissingFiles(fs) # <<>> THEN Result(FALSE, MissingFiles(fs))
  ELSE LET summary == fs.summary[1]
           issues ==
             (IF ChannelLines(fs.channels[1]) # summary.total_channels
              THEN <<Issue("channelsRecordCount", <<>>, <<>>)>> ELSE <<>>)
             \o (IF parseCSVRecordCount(fs.videos[1]) # summary.total_videos
                 THEN <<Issue("videosRecordCount", <<>>, <<>>)>> ELSE <<>>)
       IN Result(Len(issues) = 0, issues)

\* the tests of runFullVerification, in order
TestCount == 4
RunTest(k, chans, rows, fs, storeOk) ==
  IF k = 1 THEN verifyChannelCounts(chans, fs, storeOk)
  ELSE IF k = 2 THEN verifyVideoCounts(chans, rows, fs, storeOk)
  ELSE IF k = 3 THEN verifyDataIntegrity(chans, rows, storeOk)
  ELSE verifyCSVFiles(fs)

\* the report written to verification_report.json
Report(res, now) ==
  LET passed == Len(SelectSeq(res, LAMBDA r : r.passed))
      total == Len(res)
  IN [timestamp |-> now, passed_tests |-> passed, total_tests |-> total,
      all_passed |-> (passed = total), results |-> res]

(***************************************************************************)
(* Stores for the export and the verification.  Here the stored texts are  *)
(* written out character by character, since the scripts work on them.     *)
(***************************************************************************)
\* an 11-character remote video id
VideoId(c) == <<"v", "i", "d", "_", "_", "-", "-", "0", "0", "0", c>>

DatePublished == <<"2", "0", "2", "4", "-", "0", "1", "-", "0", "5">>
DateExported == <<"2", "0", "2", "4", "-", "0", "3", "-", "0", "2">>
DateEarlier == <<"2", "0", "2", "4", "-", "0", "3", "-", "0", "1">>
Podcast == <<"p", "o", "d", "c", "a", "s", "t">>

\* `https://www.youtube.com/watch?v=${video.id}`
WatchUrl(id) == <<"h", "t", "t", "p", "s", ":", "/", "/", "w", "w", "w", ".">> \o WatchLink \o id

\* a stored media item
StoredItem(c, slug, title, description, url, views, likes, comments) ==
  [id |-> VideoId(c), title |-> title, date |-> DatePublished,
   content_type |-> Podcast, duration |-> <<"2", ":", "0", "0">>,
   description |-> description, youtube_id |-> VideoId(c), image |-> <<>>,
   channel_slug |-> slug, youtube_url |-> url, views |-> views, likes |-> likes,
   comments |-> comments, apple_podcasts_url |-> <<>>, created_at |-> DateEarlier]

\* an item as the sync stores it
CleanItem(c, slug) ==
  StoredItem(c, slug, <<"t", c>>, <<>>, WatchUrl(VideoId(c)), Some(7), Some(3), Some(0))

\* an item whose title holds a newline followed by what looks like the start
\* of a record, and whose description holds quotes, a comma and a blank line
TrickyItem(c, slug) ==
  StoredItem(c, slug, <<"a", Quote, Newline>> \o VideoId("x") \o <<Comma, "b">>,
             <<"s", "a", "y", " ", Quote, "h", "i", Quote, Comma, Newline, " ", Newline, "k">>,
             WatchUrl(VideoId(c)), Some(7), None, Some(0))

\* an item with a negative counter
NegativeItem(c, slug) ==
  StoredItem(c, slug, <<"t", c>>, <<>>, WatchUrl(VideoId(c)), Some(0 - 1), Some(3), Some(0))

\* an item that fails every test of the sweep but the one on its id
BrokenItem(c, slug) ==
  [StoredItem(c, slug, <<>>, <<>>, <<"h", "t", "t", "p", ":", "/", "/", "x">>,
              Some(0 - 1), Some(0 - 2), Some(0 - 3)) EXCEPT !.date = <<>>]

ChannelA == <<"A">>
ChannelB == <<"B">>

\* channel A as the sync stores it, with a name holding a comma and quotes
\* and no remote id, and with a name holding a newline
ChannelsA ==
  {ChannelRow(ChannelA, <<"A", "l">>, <<"U", "C", "a">>, "true", DateEarlier),
   ChannelRow(ChannelA, <<"A", Comma, " ", Quote, "x", Quote>>, <<>>, NULL, DateEarlier),
   ChannelRow(ChannelA, <<"A", Newline, "l">>, <<"U", "C", "a">>, "false", DateEarlier)}

ChannelsB ==
  {ChannelRow(ChannelB, <<"B", "e">>, <<"U", "C", "b">>, "true", DateEarlier),
   ChannelRow(ChannelB, <<"B", "e">>, <<"U", "C", "b">>, NULL, DateEarlier)}

\* the channel tables tried: A and B each absent or in one of their forms
ChannelTables ==
  {SA \cup SB : SA \in {{}} \cup {{c} : c \in ChannelsA},
                SB \in {{}} \cup {{c} : c \in ChannelsB}}

\* the media items the generated stores are made of
ItemPool ==
  {CleanItem("1", ChannelA), CleanItem("2", ChannelB), TrickyItem("3", ChannelA),
   NegativeItem("4", ChannelB), TrickyItem("5", ChannelB)}

\* the most media items a generated store holds
MaxStoreItems == 2

\* the item tables tried
ItemTables == {I \in SUBSET ItemPool : Cardinality(I) <= MaxStoreItems}

\* a statistics snapshot of channel A
SnapshotA(id, date, likes) ==
  [id |-> id, channel_slug |-> ChannelA, date |-> date, subscriber_count |-> Some(100),
   total_channel_views |-> Some(5000), total_videos |-> Some(3),
   calculated_total_likes |-> likes, calculated_total_comments |-> 0,
   created_at |-> date]

\* the store of the reconciliation scenario: two channels with five and three
\* media items, and two snapshots
StoreFiveThree ==
  [channels |-> {ChannelRow(ChannelA, <<"A", "l">>, <<"U", "C", "a">>, "true", DateEarlier),
                 ChannelRow(ChannelB, <<"B", "e">>, <<"U", "C", "b">>, "false", DateEarlier)},
   items |-> {CleanItem(c, ChannelA) : c \in {"1", "2", "3", "4"}}
             \cup {TrickyItem("5", ChannelA)}
             \cup {CleanItem(c, ChannelB) : c \in {"6", "7", "8"}},
   stats |-> {SnapshotA(1, DateEarlier, 9), SnapshotA(2, DateExported, 12)}]

\* a store with more issues than a result shows: a channel without remote id
\* and four items that each fail six tests
StoreManyIssues ==
  [channels |-> {ChannelRow(ChannelA, <<"A", "l">>, <<>>, NULL, DateEarlier)},
   items |-> {BrokenItem(c, ChannelA) : c \in {"1", "2", "3", "4"}},
   stats |-> {}]

\* the stores tried: the generated ones in which every item's channel is
\* stored, and the two above
VerifyStores ==
  {[channels |-> C, items |-> I, stats |-> {}] :
     <<C, I>> \in {p \in ChannelTables \X ItemTables :
                     \A r \in p[2] : \E c \in p[1] : c.slug = r.channel_slug}}
  \cup {StoreFiveThree, StoreManyIssues}

(***************************************************************************)
(* The export run, what may happen between it and the verification, and    *)
(* the verification run                                                    *)
(***************************************************************************)
\* the variables of the sync run, which the scripts leave alone
syncRunVars == <<pc, directCalls, channelsConfig, limitVideos, catalog, idx, channelId,
                 listVars, syncVars, channelStats, outcomes, lst, gw, lastUpserted, dur,
                 csv>>

InitVerify ==
  /\ \E st \in VerifyStores :
       /\ channels = st.channels
       /\ items = st.items
       /\ stats = st.stats
       /\ nextStatId = Cardinality(st.stats) + 1
  /\ pc = "idle" /\ directCalls = 0 /\ channelsConfig = <<>> /\ limitVideos = 0
  /\ catalog = 1 /\ idx = 0 /\ channelId = NULL /\ uploadsPlaylistId = NULL
  /\ nextPageToken = 0 /\ videos = <<>> /\ newRecords = <<>> /\ updates = <<>>
  /\ pending = {} /\ channelStats = NoStats /\ outcomes = <<>> /\ lst = NoListing
  /\ gw = NoCall /\ lastUpserted = {}
  /\ dur = NoDuration /\ csv = NoCsv
  /\ vpc = "exportChannels"
  /\ files = NoFiles /\ results = <<>> /\ report = None /\ tamper = NoTamper

\* main of the export: a step that throws ends the process, the files
\* written before it stay
ExportStep(at, next, file, content) ==
  /\ vpc = at
  /\ \E ok \in BOOLEAN :
       IF ok
       THEN /\ files' = [files EXCEPT ![file] = Some(content)]
            /\ vpc' = next
       ELSE /\ vpc' = "exportFailed"
            /\ UNCHANGED files
  /\ UNCHANGED <<storeVars, syncRunVars, results, report, tamper>>

ExportChannels ==
  ExportStep("exportChannels", "exportVideos", "channels", ChannelsCSV(channels))

ExportVideos ==
  ExportStep("exportVideos", "exportStatistics", "videos", VideosCSV(channels, items))

ExportStatistics ==
  ExportStep("exportStatistics", "summary", "statistics", StatisticsCSV(channels, stats))

GenerateSummary ==
  ExportStep("summary", "exported", "summary", SummaryReport(channels, items, DateExported))

\* the values a changed total_videos is tried with
TamperValues(total) == {0, 7, total + 1} \ {total}

\* someone changes the summary's total_videos, and nothing else
TamperSummary ==
  /\ vpc = "exported" /\ tamper.kind = "none" /\ results = <<>>
  /\ \E v \in TamperValues(files.summary[1].total_videos) :
       files' = [files EXCEPT !.summary = Some([files.summary[1] EXCEPT !.total_videos = v])]
  /\ tamper' = [kind |-> "summary", was |-> files.summary[1].total_videos]
  /\ UNCHANGED <<storeVars, syncRunVars, vpc, results, report>>

\* a sync run stores one more media item for a stored channel
StoreChanges ==
  /\ vpc = "exported" /\ tamper.kind = "none" /\ results = <<>>
  /\ \E c \in channels : items' = items \cup {CleanItem("9", c.slug)}
  /\ tamper' = [kind |-> "store", was |-> 0]
  /\ UNCHANGED <<channels, stats, nextStatId, syncRunVars, vpc, files, results, report>>

\* the most store failures tried in one verification run
MaxStoreFailures == 1

\* a plausible slip: a test that throws ends the run
AfterTest_Abort(k, result) ==
  IF result.threw THEN "crashed" ELSE IF k = TestCount THEN "report" ELSE "verify"

\* runFullVerification after test k: a test that throws is caught and
\* recorded like one that failed, and the loop goes on
AfterTest(k, result) == IF k = TestCount THEN "report" ELSE "verify"

\* runFullVerification: one turn of the loop over the tests
RunCheck ==
  /\ vpc \in {"exported", "exportFailed", "verify"}
  /\ Len(results) < TestCount
  /\ \E storeOk \in BOOLEAN :
       /\ ~storeOk => Len(SelectSeq(results, LAMBDA r : r.threw)) < MaxStoreFailures
       /\ \E res \in {RunTest(Len(results) + 1, channels, items, files, storeOk)} :
            /\ results' = Append(results, res)
            /\ vpc' = AfterTest(Len(results) + 1, res)
  /\ UNCHANGED <<storeVars, syncRunVars, files, report, tamper>>

\* runFullVerification: the report is written
WriteReport ==
  /\ vpc = "report"
  /\ report' = Some(Report(results, DateExported))
  /\ vpc' = "verified"
  /\ UNCHANGED <<storeVars, syncRunVars, files, results, tamper>>

NextVerify ==
  \/ ExportChannels
  \/ ExportVideos
  \/ ExportStatistics
  \/ GenerateSummary
  \/ TamperSummary
  \/ StoreChanges
  \/ RunCheck
  \/ WriteReport

SpecVerify == InitVerify /\ [][NextVerify]_vars

(***************************************************************************)
(* Properties                                                              *)
(***************************************************************************)
SeqIds(q) == {q[i].id : i \in 1..Len(q)}
RowsOf(slug) == {r \in items : r.channel_slug = slug}
Running == pc \notin {"idle", "done", "aborted"}

\* C1: while insertNewMediaItems is past its partition loop, with E the ids
\* stored for the channel and B the ids of the incoming batch, the ids of the
\* bulk insert are B \ E, the ids sent as counter updates are B \cap E, and
\* every id of B is in exactly one of the two sets.
C1_Partition ==
  pc \in {"updates", "insert"} =>
    LET E == {r.id : r \in RowsOf(channel.slug)}
        B == SeqIds(videos)
    IN /\ SeqIds(newRecords) = B \ E
       /\ SeqIds(updates) = B \cap E
       /\ SeqIds(newRecords) \cap SeqIds(updates) = {}
       /\ SeqIds(newRecords) \cup SeqIds(updates) = B

\* C1 witness: a batch of three has been partitioned into a non-empty update
\* set and a non-empty insert set.
C1_Witness ==
  /\ pc \in {"updates", "insert"}
  /\ Len(videos) = 3
  /\ SeqIds(updates) # {}
  /\ SeqIds(newRecords) # {}

\* C2: a step never removes a stored media item and changes nothing of it but
\* its views, likes and comments.
C2_DescriptiveFieldsFrozen ==
  [][\A r \in items :
       /\ \E q \in items' : q.id = r.id
       /\ \A q \in items' :
            q.id = r.id =>
              [q EXCEPT !.views = r.views, !.likes = r.likes, !.comments = r.comments] = r]_vars

\* C2 witness: the stored item v1 has taken the counters of a later remote
\* record whose title, description and date differ, and kept its own.
C2_Witness ==
  \E r \in items :
    /\ r.id = "v1" /\ r.title = "t1-first" /\ r.created_at = Earlier
    /\ r.views = Some(11) /\ r.likes = Some(4) /\ r.comments = Some(2)

\* C3: a successful upsertChannel leaves exactly one row of the slug, holding
\* the name and remote id of the input; when the previous successful upsert of
\* that slug had the same input, the table is left as it was.
C3_UpsertChannelIdempotent ==
  [][(pc = "upsert" /\ pc' = "resolve") =>
       LET name == channel.name
           rid == IF channel.youtubeId \in {NULL, EMPTY} THEN NULL ELSE channel.youtubeId
           same == {r \in lastUpserted :
                      r.slug = channel.slug /\ r.name = name /\ r.youtube_id = rid}
       IN /\ Cardinality({r \in channels' : r.slug = channel.slug}) = 1
          /\ \A r \in channels' :
               r.slug = channel.slug => r.name = name /\ r.youtube_id = rid
          /\ \A r \in channels' : r.slug # channel.slug => r \in channels
          /\ \A r \in channels : r.slug # channel.slug => r \in channels'
          /\ same # {} => channels' = channels]_vars

\* C3 witness: the third channel of the list repeats the first, both upserts
\* have succeeded, and the channel has its one row.
C3_Witness ==
  /\ pc = "resolve" /\ idx = 3
  /\ channelsConfig[1] = channelsConfig[3]
  /\ outcomes[1].result \in {"success", "noVideos"}
  /\ Cardinality({r \in channels : r.slug = channel.slug}) = 1

\* the step of the loop body that the run is at can be taken
CanStep ==
  /\ pc \in {"upsert", "resolve", "playlist", "page", "sync", "updates", "insert",
             "stats", "statsUpsert"}
  /\ pc = "page" =>
       /\ uploadsPlaylistId \in DOMAIN Cat.pages
       /\ nextPageToken \in 0..Len(Cat.pages[uploadsPlaylistId])
  /\ pc = "updates" => pending # {} /\ pending \subseteq 1..Len(updates)

\* C4: whatever happens to a channel, the run is never aborted: the loop
\* iterations done so far are those of the first channels of the list, one
\* each and in list order, the run can always take its next step, and at the
\* completion step every channel of the list has had its iteration.
C4_RunCompletes ==
  /\ pc # "aborted"
  /\ pc # "idle" =>
       /\ Len(outcomes) <= Len(channelsConfig)
       /\ \A i \in 1..Len(outcomes) : outcomes[i].slug = channelsConfig[i].slug
  /\ Running => idx = Len(outcomes) + 1 /\ idx <= Len(channelsConfig) /\ CanStep
  /\ pc = "done" => Len(outcomes) = Len(channelsConfig)

\* C4 witness: the run is complete, a channel of the list has failed, and a
\* later channel has been processed successfully.
C4_Witness ==
  /\ pc = "done"
  /\ \E i, j \in 1..Len(outcomes) :
       i < j /\ outcomes[i].result = "error" /\ outcomes[j].result = "success"

\* C5: every persistence gateway call in which a store request has failed
\* ends by throwing to its caller.
C5_StoreFailuresPropagate == gw.done /\ gw.failed => gw.threw

\* the listing is in its loop or has handed its videos to main
HasVideos == pc \in {"page", "sync", "updates", "insert", "stats", "statsUpsert"}

\* C6 as claimed: with a cap the listing holds at most that many videos and
\* requests no page once it holds them; without a cap a listing that has
\* requested pages stops only on a page without continuation token.
C6_StopsOnlyAtLastPage ==
  /\ limitVideos # 0 => Len(videos) <= limitVideos
  /\ limitVideos # 0 /\ HasVideos /\ Len(videos) >= limitVideos => pc # "page"
  /\ limitVideos = 0 /\ lst.requests > 0 /\ lst.stop # "" => lst.stop = "noCursor"

\* C6 amended: with a cap the listing holds at most that many videos and
\* requests no page once it holds them; without a cap it never stops on the
\* cap, it goes round only with the continuation token of the page just
\* received, it stops on a page without one, and before that only when a
\* request or a mapping fails, a page answers without items or video ids, or
\* no uploads playlist is found.
C6_LimitAndCursor ==
  /\ limitVideos # 0 => Len(videos) <= limitVideos
  /\ limitVideos # 0 /\ HasVideos /\ Len(videos) >= limitVideos => pc # "page"
  /\ lst.stop = "limit" => limitVideos # 0 /\ lst.count = limitVideos
  /\ limitVideos = 0 /\ lst.stop # "" =>
       lst.stop \in {"noCursor", "error", "noItems", "noIds", "noPlaylist"}
  /\ lst.stop = "noCursor" => lst.cursor = 0 /\ ~lst.failed
  /\ pc = "page" /\ lst.requests > 0 =>
       lst.stop = "" /\ lst.cursor # 0 /\ nextPageToken = lst.cursor
  /\ pc = "page" /\ lst.requests = 0 => nextPageToken = 0

\* C6 witness: under a cap of one the listing has stopped on the cap with one
\* video, while the page it stopped on carries a continuation token.
C6_Witness ==
  /\ pc = "sync" /\ limitVideos = 1
  /\ lst.stop = "limit" /\ Len(videos) = 1 /\ lst.cursor # 0 /\ lst.requests = 2

\* C7 as claimed: after a failure in the listing no further page is requested
\* and the channel's processing does not go on to persist videos.
C7_FailurePropagates ==
  lst.failed => pc \notin {"page", "sync", "updates", "insert", "stats", "statsUpsert"}

\* C7 amended: a failure in the listing ends it (no later page is requested),
\* and is not propagated: the listing returns the videos collected so far,
\* those of the earlier pages first; main goes on to persist them when there
\* are any and reports "no videos" when there are none.
C7_FailureEndsListing ==
  [][(pc = "page" /\ lst'.failed) =>
       /\ pc' # "page"
       /\ lst'.stop = "error"
       /\ lst'.count >= Len(videos)
       /\ lst'.count > 0 =>
            /\ pc' = "sync"
            /\ Len(videos') = lst'.count
            /\ SubSeq(videos', 1, Len(videos)) = videos
            /\ outcomes' = outcomes
       /\ lst'.count = 0 =>
            /\ outcomes' = Append(outcomes, [slug |-> channel.slug, result |-> "noVideos"])
            /\ pc' \in {"upsert", "done"}]_vars

\* C7 witness: the listing has failed on a later page and main is about to
\* persist the videos of the earlier one.
C7_Witness ==
  /\ pc = "sync" /\ lst.failed /\ lst.requests > 2 /\ Len(videos) > 0

\* the seconds that the listing computes for a remote video of the run
RemoteSeconds(id) == parseDurationToSeconds(Cat.videos[id].duration)

\* C8: a remote video that the mapping loop has decided is among the videos
\* of the listing if and only if its parsed duration is at least 120 seconds;
\* no video of the listing is shorter; a token of 120 seconds is at the
\* boundary on the included side, one of 119 seconds on the excluded side.
C8_ShortVideosDropped ==
  /\ parseDurationToSeconds(PT2M) = 120 /\ parseDurationToSeconds(PT1M59S) = 119
  /\ HasVideos =>
       /\ \A i \in 1..Len(videos) : RemoteSeconds(videos[i].id) >= 120
       /\ \A id \in lst.examined : id \in SeqIds(videos) <=> RemoteSeconds(id) >= 120
       /\ SeqIds(videos) \subseteq lst.examined

\* C8 witness: of the first catalog's first page, the video of exactly 120
\* seconds is listed and the one of 119 seconds is not.
C8_Witness ==
  /\ pc = "sync" /\ catalog = 1
  /\ {"v1", "v2"} \subseteq lst.examined
  /\ RemoteSeconds("v1") = 120 /\ "v1" \in SeqIds(videos)
  /\ RemoteSeconds("v2") = 119 /\ "v2" \notin SeqIds(videos)

\* the positions of the colons of a display text
Colons(d) == {i \in 1..Len(d) : d[i] = ":"}

\* a display field: decimal digits only
IsField(f) == f # <<>> /\ \A i \in 1..Len(f) : IsDigit(f[i])

\* a first display field: digits without a leading zero, or the single zero
IsFirstField(f) == IsField(f) /\ (f[1] = "0" => Len(f) = 1)

\* the display text d reads as total seconds: M:SS under an hour, H:MM:SS
\* from an hour on, two digits on every field but the first
Reads(d, total) ==
  LET C == Colons(d)
  IN IF total < 3600
     THEN /\ Cardinality(C) = 1
          /\ LET c == SetMin(C)
                 mm == SubSeq(d, 1, c - 1)
                 ss == SubSeq(d, c + 1, Len(d))
             IN /\ IsFirstField(mm) /\ IsField(ss) /\ Len(ss) = 2
                /\ DigitsValue(ss) < 60
                /\ DigitsValue(mm) * 60 + DigitsValue(ss) = total
     ELSE /\ Cardinality(C) = 2
          /\ LET c1 == SetMin(C)
                 c2 == SetMax(C)
                 hh == SubSeq(d, 1, c1 - 1)
                 mm == SubSeq(d, c1 + 1, c2 - 1)
                 ss == SubSeq(d, c2 + 1, Len(d))
             IN /\ IsFirstField(hh) /\ IsField(mm) /\ Len(mm) = 2
                /\ IsField(ss) /\ Len(ss) = 2
                /\ DigitsValue(mm) < 60 /\ DigitsValue(ss) < 60
                /\ DigitsValue(hh) * 3600 + DigitsValue(mm) * 60 + DigitsValue(ss) = total

PT0S == <<"P", "T", "0", "S">>

\* C9: a token PT#H#M#S with optional components parses to
\* hours*3600 + minutes*60 + seconds, a token without the pattern to 0, and
\* the display of a token reads as its seconds, H:MM:SS from an hour on and
\* M:SS under it; PT1H2M3S gives 3723 and "1:02:03", PT5M9S gives 309 and
\* "5:09", PT0S gives 0 and "0:00".
C9_DurationParsedAndShown ==
  /\ dur.stage \in {"parsed", "shown"} =>
       IF dur.token \in Unparseable
       THEN dur.seconds = 0
       ELSE dur.seconds = OrZero(dur.h) * 3600 + OrZero(dur.m) * 60 + OrZero(dur.s)
  /\ dur.stage = "shown" =>
       /\ Reads(dur.display, dur.seconds)
       /\ dur.token \in Unparseable => dur.display = <<"0", ":", "0", "0">>
  /\ parseDurationToSeconds(PT1H2M3S) = 3723
  /\ formatDuration(PT1H2M3S) = <<"1", ":", "0", "2", ":", "0", "3">>
  /\ parseDurationToSeconds(PT5M9S) = 309
  /\ formatDuration(PT5M9S) = <<"5", ":", "0", "9">>
  /\ parseDurationToSeconds(PT0S) = 0
  /\ formatDuration(PT0S) = <<"0", ":", "0", "0">>

\* C9 witness: the token PT1H2M3S has been parsed and shown.
C9_Witness ==
  /\ dur.stage = "shown" /\ dur.token = PT1H2M3S
  /\ dur.seconds = 3723 /\ Len(dur.display) = 7

RECURSIVE Total(_, _)
\* the sum of a counter over a set of stored rows, a missing value as 0
Total(rows, f) ==
  IF rows = {} THEN 0
  ELSE LET r == CHOOSE x \in rows : TRUE
       IN (IF r[f] = None THEN 0 ELSE r[f][1]) + Total(rows \ {r}, f)

\* C10: a snapshot written by upsertChannelStatistics carries, as calculated
\* totals, the sums of likes and of comments over the media items stored for
\* its channel at the time of the call, a missing value counting as 0 (so 0
\* for a channel without stored items).
C10_CalculatedTotals ==
  [][\A r \in stats' \ stats :
       /\ r.calculated_total_likes = Total(RowsOf(r.channel_slug), "likes")
       /\ r.calculated_total_comments = Total(RowsOf(r.channel_slug), "comments")
       /\ RowsOf(r.channel_slug) = {} =>
            r.calculated_total_likes = 0 /\ r.calculated_total_comments = 0]_vars

\* C10 witness: a snapshot of total 10 is stored for a channel whose three
\* items have likes 3, 7 and 0, beside items of another channel.
C10_Witness ==
  /\ \E r \in stats : r.channel_slug = "a" /\ r.calculated_total_likes = 10
  /\ Cardinality(RowsOf("a")) = 3
  /\ {OrZero(r.likes) : r \in RowsOf("a")} = {3, 7, 0}
  /\ RowsOf("b") # {}

\* a step in which upsertChannelStatistics is called and returns or throws
StatisticsStep ==
  \/ pc = "statsUpsert" /\ pc' # "statsUpsert"
  \/ directCalls' # directCalls

\* the snapshots stored for a channel and a date
SnapshotsOf(statRows, slug, date) ==
  {r \in statRows : r.channel_slug = slug /\ r.date = date}

\* C11: the store holds at most one snapshot per channel and date; a call for
\* a channel and date that have a snapshot, on a store that answers, does not
\* fail and leaves one snapshot for them, the one of the call; a call leaves
\* every snapshot of another date as it was.
C11_OneSnapshotPerChannelAndDate ==
  [][StatisticsStep =>
       /\ \A r1, r2 \in stats' :
            r1.channel_slug = r2.channel_slug /\ r1.date = r2.date => r1 = r2
       /\ {r \in stats : r.date # gw'.date} = {r \in stats' : r.date # gw'.date}
       /\ gw'.fault = "none" /\ SnapshotsOf(stats, gw'.slug, gw'.date) # {} =>
            /\ ~gw'.threw
            /\ Cardinality(SnapshotsOf(stats', gw'.slug, gw'.date)) = 1
            /\ \A r \in SnapshotsOf(stats', gw'.slug, gw'.date) :
                 r.calculated_total_likes = calculatedLikes(items, gw'.slug)]_vars

\* the number of quote characters of a text
QuoteCount(str) == Cardinality({i \in 1..Len(str) : str[i] = Quote})

\* the text without its quote characters
RECURSIVE Unquoted(_)
Unquoted(str) ==
  IF str = <<>> THEN <<>>
  ELSE (IF str[1] = Quote THEN <<>> ELSE <<str[1]>>) \o Unquoted(SubSeq(str, 2, Len(str)))

\* "He said ""hi"", ok"
HeSaidHiEscaped ==
  <<Quote, "H", "e", " ", "s", "a", "i", "d", " ", Quote, Quote, "h", "i", Quote, Quote,
    Comma, " ", "o", "k", Quote>>

\* C12: escapeCSV wraps a field in quotes, doubling its quotes, if and only
\* if the field holds a comma, a quote or a newline, and emits it as it
\* stands otherwise; a parser reads the original text back from the output;
\* He said "hi", ok becomes "He said ""hi"", ok".
C12_EscapeCSVRoundTrip ==
  /\ csv.stage \in {"escaped", "parsed"} /\ csv.value # None =>
       LET v == csv.value[1]
           e == csv.escaped
           special == \E i \in 1..Len(v) : v[i] \in {Comma, Quote, Newline}
       IN IF special
          THEN /\ Len(e) = Len(v) + QuoteCount(v) + 2
               /\ e[1] = Quote /\ e[Len(e)] = Quote
               /\ QuoteCount(e) = 2 * QuoteCount(v) + 2
               /\ Unquoted(e) = Unquoted(v)
               /\ \A i \in 2..(Len(e) - 1) :
                    e[i] = Quote => e[i - 1] = Quote \/ e[i + 1] = Quote
          ELSE e = v
  /\ csv.stage \in {"escaped", "parsed"} /\ csv.value = None => csv.escaped = <<>>
  /\ csv.stage = "parsed" /\ csv.value # None => csv.parsed = csv.value
  /\ escapeCSV(Some(HeSaidHi)) = HeSaidHiEscaped
  /\ ParseCSVField(HeSaidHiEscaped) = Some(HeSaidHi)

\* C12 witness: a field holding a quote and a comma has been escaped, with
\* its quote doubled, and read back.
C12_Witness ==
  /\ csv.stage = "parsed"
  /\ csv.value = Some(<<Quote, Comma, "a">>)
  /\ csv.escaped = <<Quote, Quote, Quote, Comma, "a", Quote>>
  /\ csv.parsed = csv.value

\* the verification run has collected all its results
Verified == vpc \in {"report", "verified"}

\* no test of the verification run threw
NoneThrew == \A i \in 1..Len(results) : ~results[i].threw

\* the export run went through: all four files are on disk
Exported == files.channels # None /\ files.videos # None /\ files.statistics # None
            /\ files.summary # None

\* C13: a verification run executes the four checks in order whatever the
\* earlier ones gave: a check that fails or throws is recorded and the next
\* one runs; the report holds exactly four results, and its all_passed flag
\* is true if and only if all four passed.
C13_AllFourChecksRun ==
  [][/\ vpc' # "crashed"
     /\ results' # results =>
          /\ Len(results) < 4
          /\ \E ok \in BOOLEAN :
               results' = Append(results, RunTest(Len(results) + 1, channels, items, files, ok))
          /\ vpc' = IF Len(results') = 4 THEN "report" ELSE "verify"
     /\ vpc' = "verify" => Len(results') \in 1..3
     /\ vpc' = "report" => Len(results') = 4
     /\ report' # report =>
          /\ vpc = "report" /\ vpc' = "verified" /\ report' # None
          /\ report'[1].results = results /\ Len(report'[1].results) = 4
          /\ report'[1].total_tests = 4
          /\ report'[1].passed_tests = Cardinality({i \in 1..4 : results[i].passed})
          /\ report'[1].all_passed <=> \A i \in 1..4 : results[i].passed]_vars

\* C13 witness: the first check threw, the later ones ran and passed, and the
\* report holds four results with all_passed false.
C13_Witness ==
  /\ vpc = "verified" /\ report # None
  /\ Len(report[1].results) = 4
  /\ report[1].results[1].threw
  /\ \A i \in 2..4 : report[1].results[i].passed
  /\ ~report[1].all_passed

\* the files as they were before the summary's total_videos was changed
FilesBeforeTamper ==
  [files EXCEPT !.summary = Some([files.summary[1] EXCEPT !.total_videos = tamper.was])]

\* the verification ran after only the summary's total_videos was changed,
\* on a store and files that passed all four checks before the change
OnlyTotalVideosChanged ==
  /\ Verified /\ tamper.kind = "summary" /\ NoneThrew
  /\ \A k \in 1..4 : RunTest(k, channels, items, FilesBeforeTamper, TRUE).passed

\* C14 as claimed: after only the summary's total_videos is changed, from a
\* state in which all four checks pass, the video-count check fails and the
\* other three pass.
C14_OnlyVideoCountFails ==
  OnlyTotalVideosChanged =>
    /\ results[1].passed /\ ~results[2].passed /\ results[3].passed /\ results[4].passed

\* C14 amended: after only the summary's total_videos is changed, from a
\* state in which all four checks pass, the video-count check and the
\* export-file check fail (the latter on the videos record count alone), and
\* the channel-count check and the integrity check pass.
C14_VideoCountAndFilesFail ==
  OnlyTotalVideosChanged =>
    /\ results[1].passed /\ ~results[2].passed /\ results[3].passed
    /\ ~results[4].passed
    /\ results[4].details = <<Issue("videosRecordCount", <<>>, <<>>)>>

\* C14 witness: on the store of two channels with five and three items, the
\* summary's total_videos was changed from 8 to 7 and the four checks ran.
C14_Witness ==
  /\ OnlyTotalVideosChanged
  /\ tamper.was = 8 /\ files.summary[1].total_videos = 7
  /\ Cardinality(channels) = 2 /\ Cardinality(items) = 8

\* C15: when the store is as it was at the export, the channel-count check,
\* the video-count check and the export-file check pass, whatever the store
\* holds.
C15_ExportVerifiesUnchangedStore ==
  Verified /\ Exported /\ tamper.kind = "none" /\ NoneThrew =>
    results[1].passed /\ results[2].passed /\ results[4].passed

\* the counters of a media item and the issue each gives when negative
CounterIssues ==
  {<<"views", "negativeViews">>, <<"likes", "negativeLikes">>,
   <<"comments", "negativeComments">>}

\* the entry naming the item and its channel for a negative counter
NegativeEntry(r, ci) == Issue(ci[2], r.id, r.channel_slug)

\* the stored items with a negative counter, each with that counter
NegativeCounters ==
  {<<r, ci>> \in items \X CounterIssues : r[ci[1]] # None /\ r[ci[1]][1] < 0}

\* C16 as claimed: whenever a stored item has a negative counter, the
\* integrity check fails and its details hold an entry naming the item and
\* its channel.
C16_NegativeCounterReported ==
  Verified /\ ~results[3].threw =>
    \A p \in NegativeCounters :
      /\ ~results[3].passed
      /\ \E i \in 1..Len(results[3].details) : results[3].details[i] = NegativeEntry(p[1], p[2])

\* C16 amended: whenever a stored item has a negative counter, the integrity
\* check fails and the sweep records an entry naming the item and its
\* channel; the details of the result are the first 20 entries of the sweep,
\* so the entry is among them when fewer than 20 issues precede it.
C16_NegativeCounterAmongFirstTwenty ==
  Verified /\ ~results[3].threw =>
    LET issues == IntegrityIssues(channels, items)
        details == results[3].details
    IN /\ Len(details) = (IF Len(issues) < 20 THEN Len(issues) ELSE 20)
       /\ \A i \in 1..Len(details) : details[i] = issues[i]
       /\ \A p \in NegativeCounters :
            /\ ~results[3].passed
            /\ \E i \in 1..Len(issues) : issues[i] = NegativeEntry(p[1], p[2])

\* C16 witness: the sweep found more than 20 issues, the check failed, and
\* the 20 entries of its details stop short of the entry of a negative
\* counter.
C16_Witness ==
  /\ Verified /\ ~results[3].threw /\ ~results[3].passed
  /\ Len(results[3].details) = 20
  /\ \E p \in NegativeCounters :
       \A i \in 1..20 : results[3].details[i] # NegativeEntry(p[1], p[2])

\* C17: the summary counts every stored channel in exactly one of the
\* classes visible (true), hidden (false) and unknown (null), so the three
\* counts sum to total_channels.
C17_VisibilityClassesPartition ==
  files.summary # None =>
    LET v == files.summary[1].channels_by_visibility
    IN /\ v.visible = Cardinality({c \in channels : c.visible = "true"})
       /\ v.hidden = Cardinality({c \in channels : c.visible = "false"})
       /\ v.null_visibility = Cardinality({c \in channels : c.visible = NULL})
       /\ v.visible + v.hidden + v.null_visibility = files.summary[1].total_channels

\* the ids of the new records that are stored under another channel
StoredElsewhere ==
  {newRecords[i].id : i \in 1..Len(newRecords)}
    \cap {r.id : r \in {x \in items : x.channel_slug # channel.slug}}

\* C18: no two stored media items share an id, and the channel of every
\* stored media item is stored; rows are added to the media items only by the
\* bulk insert of a channel whose upsert went through in the same iteration,
\* each under that channel and under an id not stored before; a batch with
\* an id stored under another channel adds no row.
C18_UniqueIdsAndStoredChannels ==
  /\ [](/\ \A r1, r2 \in items : r1.id = r2.id => r1 = r2
        /\ \A r \in items : \E c \in channels : c.slug = r.channel_slug)
  /\ [][/\ {r.id : r \in items} \subseteq {r.id : r \in items'}
         /\ Cardinality(items') > Cardinality(items) =>
              /\ pc = "insert"
              /\ ChannelRecord(channel) \in lastUpserted
              /\ \E c \in channels : c.slug = channel.slug
              /\ StoredElsewhere = {}
              /\ \A r \in items' \ items :
                   /\ r.channel_slug = channel.slug
                   /\ r.id \notin {x.id : x \in items}]_vars

\* C18 witness: the listing of channel b held v1, which is stored under
\* channel a; the bulk insert was rejected and the iteration ended in the
\* catch block, the store holding v1 once, under channel a.
C18_Witness ==
  /\ gw.op = "insertNewMediaItems" /\ gw.fault = "rejected" /\ gw.threw
  /\ outcomes # <<>>
  /\ outcomes[Len(outcomes)] = [slug |-> "b", result |-> "error"]
  /\ \E r \in items : r.id = "v1" /\ r.channel_slug = "a"
  /\ \A r \in items : r.id = "v1" => r.channel_slug = "a"

\* the media-item sync of the current iteration has returned without throwing
SyncCompleted == gw.op = "insertNewMediaItems" /\ gw.done /\ ~gw.threw

\* C19: the statistics are fetched and stored only after the media-item sync
\* of the iteration has returned; whether the fetch or the upsert fails or
\* not, the step leaves the media items and the channels as they are, and the
\* iteration ends as a success with the loop going on to the next channel.
C19_StatisticsFailureContained ==
  [][/\ pc \in {"stats", "statsUpsert"} =>
          /\ SyncCompleted
          /\ items' = items /\ channels' = channels
          /\ \/ pc = "stats" /\ pc' = "statsUpsert" /\ channelStats'.present
                /\ outcomes' = outcomes /\ idx' = idx
             \/ /\ outcomes' = Append(outcomes, [slug |-> channel.slug, result |-> "success"])
                /\ idx' = idx + 1
                /\ pc' = (IF idx < Len(channelsConfig) THEN "upsert" ELSE "done")
     /\ gw'.op = "upsertChannelStatistics" /\ gw' # gw /\ pc # "done" =>
          pc = "statsUpsert"]_vars

\* C19 witness: the statistics upsert of a channel threw after the sync had
\* written media items for it; the items are stored, the iteration is
\* recorded as a success and the loop stands at the next channel.
C19_Witness ==
  /\ pc = "upsert" /\ directCalls = 0
  /\ gw.op = "upsertChannelStatistics" /\ gw.threw
  /\ outcomes # <<>>
  /\ outcomes[Len(outcomes)].result = "success"
  /\ gw.slug = outcomes[Len(outcomes)].slug
  /\ \E r \in items : r.channel_slug = gw.slug /\ r.created_at = Today

\* the stored row r holds the counters of the incoming video v, a missing
\* one as 0
HoldsCounters(r, v) ==
  /\ r.views = Some(OrZero(v.views))
  /\ r.likes = Some(OrZero(v.likes))
  /\ r.comments = Some(OrZero(v.comments))

\* the ids of the incoming batch are pairwise distinct
DistinctIds(vids) == \A i, j \in 1..Len(vids) : i # j => vids[i].id # vids[j].id

\* C20: the counter updates are in flight together and the bulk insert starts
\* only when none is left; an update changes the counters of its own row and
\* nothing else, whichever order the updates complete in; with pairwise
\* distinct ids and no failed update, every completed update has left its row
\* with the incoming views, likes and comments (a missing one as 0), and so
\* has every video of the batch when insertNewMediaItems has returned.
C20_UpdatesCommute ==
  /\ [](/\ pc = "insert" => pending = {}
        /\ pc = "updates" => pending # {} /\ pending \subseteq 1..Len(updates)
        /\ pc \in {"updates", "insert"} /\ DistinctIds(videos) /\ ~gw.failed =>
             \A i \in (1..Len(updates)) \ pending :
               \E r \in items : /\ r.id = updates[i].id
                                /\ r.channel_slug = channel.slug
                                /\ HoldsCounters(r, updates[i])
        /\ pc = "stats" /\ SyncCompleted /\ DistinctIds(videos) /\ ~gw.failed =>
             \A i \in 1..Len(videos) :
               \E r \in items : r.id = videos[i].id /\ HoldsCounters(r, videos[i]))
  /\ [][pc = "updates" =>
         /\ Cardinality(pending') < Cardinality(pending) \/ pending' = pending
         /\ Cardinality(items') = Cardinality(items)
         /\ \A r \in items :
              \E q \in items' :
                IF r.id \in SeqIds(updates)
                THEN [q EXCEPT !.views = r.views, !.likes = r.likes,
                               !.comments = r.comments] = r
                ELSE q = r]_vars

\* C20 witness: three updates with distinct ids were in flight; the second
\* and the third have completed before the first, none failed, and their rows
\* hold the incoming counters.
C20_Witness ==
  /\ pc = "updates" /\ Len(updates) = 3 /\ DistinctIds(videos) /\ ~gw.failed
  /\ pending = {1}
  /\ \A i \in {2, 3} :
       \E r \in items : r.id = updates[i].id /\ HoldsCounters(r, updates[i])
  /\ \E r \in items : r.id = updates[1].id /\ ~HoldsCounters(r, updates[1])

\* no stored channel has a newline in a text column
NoNewlineInChannels ==
  \A c \in channels : \A f \in {"slug", "name", "youtube_id", "created_at"} :
    ~IncludesChar(c[f], Newline)

\* C15 restricted: as C15, for stores whose channel columns hold no newline.
C15_WithoutNewlineInChannels ==
  Verified /\ Exported /\ tamper.kind = "none" /\ NoneThrew /\ NoNewlineInChannels =>
    results[1].passed /\ results[2].passed /\ results[4].passed
====
